---------------------------- MODULE Spec2Model ----------------------------
(***************************************************************************)
(* The InnoDB index page (storage/innobase/page/page0page.cc): the page    *)
(* header, the record heap, the one-way record list from infimum to        *)
(* supremum, the free list of deleted records and the page directory.      *)
(*                                                                         *)
(* A page is a record of its header fields, its directory (slot number ->  *)
(* stored 2-byte offset) and its heap (origin offset -> record header and  *)
(* payload size).  Records are identified, as in the code, by the offset   *)
(* of their origin within the page frame; offset 0 is the NULL pointer.    *)
(***************************************************************************)
EXTENDS Integers, Sequences, FiniteSets, TLC

(***************************************************************************)
(* Bounds of the model.                                                    *)
(***************************************************************************)
\* size of the page frame in bytes (srv_page_size; small, so that the heap fills up)
UNIV_PAGE_SIZE == 284
\* user keys are 1..MaxKey
MaxKey == 13
\* the workloads of a page's life: many inserts and one delete operation,
\* few inserts and two delete operations, or few inserts (the copied records
\* count as inserted), copies from another page and one delete operation
LoadInserts == 13
LoadDeletes == 1
ChurnInserts == 8
ChurnDeletes == 2
MergeInserts == 8
MergeDeletes == 1
MergeCopies == 1
\* the records of the other page of a copy
MaxCopyLen == 4
\* transaction ids are 0..MaxTrxId; the other page of a copy on a secondary
\* index carries MaxTrxId
MaxTrxId == 2
\* copies with every kind of index, page level and pair of transaction ids
\* are applied to the pages of at most TrxCheckInserts inserts
TrxCheckInserts == 2

(***************************************************************************)
(* Program constants.                                                      *)
(***************************************************************************)
PAGE_DIR_SLOT_MAX_N_OWNED == 8
PAGE_DIR_SLOT_MIN_N_OWNED == 4
PAGE_DIR_SLOT_SIZE == 2
PAGE_DIR == 8
PAGE_DATA == 94
PAGE_HEAP_NO_USER_LOW == 2
REC_N_NEW_EXTRA_BYTES == 5
REC_N_OLD_EXTRA_BYTES == 6
PAGE_NEW_INFIMUM == PAGE_DATA + REC_N_NEW_EXTRA_BYTES
PAGE_NEW_SUPREMUM == PAGE_DATA + 2 * REC_N_NEW_EXTRA_BYTES + 8
PAGE_NEW_SUPREMUM_END == PAGE_NEW_SUPREMUM + 8
PAGE_OLD_INFIMUM == PAGE_DATA + 1 + REC_N_OLD_EXTRA_BYTES
PAGE_OLD_SUPREMUM == PAGE_DATA + 2 + 2 * REC_N_OLD_EXTRA_BYTES + 8
PAGE_OLD_SUPREMUM_END == PAGE_OLD_SUPREMUM + 9
\* the compact-format flag of the PAGE_N_HEAP field (0x8000)
PAGE_N_HEAP_COMP_FLAG == 32768

Max(a, b) == IF a >= b THEN a ELSE b

VARIABLES
    page,      \* the index page of the buffer block
    index,     \* the index descriptor of the page (fixed for the page's life)
    last,      \* the last completed operation and what it returned
    call,      \* the last direct call of page_mem_alloc_heap: arguments and results
    workload,  \* how many inserts and delete operations the callers apply to a page
    done       \* the inserts and delete operations applied since the page was created

vars == <<page, index, last, call, workload, done>>

(***************************************************************************)
(* The infimum and supremum of an empty page, byte for byte.               *)
(***************************************************************************)
infimum_supremum_redundant ==
    << 8, 1, 0, 0, 3, 0, 116,
       105, 110, 102, 105, 109, 117, 109, 0,
       9, 1, 0, 8, 3, 0, 0,
       115, 117, 112, 114, 101, 109, 117, 109, 0 >>

\* a variant of infimum_supremum_compact whose infimum does not point to the
\* supremum (the next-record offset 13 is written as 0)
infimum_supremum_compact_no_next ==
    << 1, 0, 2, 0, 0,
       105, 110, 102, 105, 109, 117, 109, 0,
       1, 0, 11, 0, 0,
       115, 117, 112, 114, 101, 109, 117, 109 >>

infimum_supremum_compact ==
    << 1, 0, 2, 0, 13,
       105, 110, 102, 105, 109, 117, 109, 0,
       1, 0, 11, 0, 0,
       115, 117, 112, 114, 101, 109, 117, 109 >>

\* the byte at page offset offs, the array having been copied to PAGE_DATA
ByteAt(arr, offs) == arr[offs - PAGE_DATA + 1]
mach_read_from_2(arr, offs) == ByteAt(arr, offs) * 256 + ByteAt(arr, offs + 1)

\* the record header fields as rem0rec.ic reads them from the bytes in
\* front of the origin
rec_get_n_owned_new(arr, rec) == ByteAt(arr, rec - 5) % 16
rec_get_heap_no_new(arr, rec) == (mach_read_from_2(arr, rec - 4) \div 8) % 8192
rec_get_status(arr, rec) == ByteAt(arr, rec - 3) % 8
rec_get_next_offs_new(arr, rec) ==
    LET field_value == mach_read_from_2(arr, rec - 2)
    IN  IF field_value = 0 THEN 0
        ELSE (rec + field_value) % UNIV_PAGE_SIZE
rec_get_n_owned_old(arr, rec) == ByteAt(arr, rec - 6) % 16
rec_get_heap_no_old(arr, rec) == (mach_read_from_2(arr, rec - 5) \div 8) % 8192
rec_get_next_offs_old(arr, rec) == mach_read_from_2(arr, rec - 2)

\* a record of the heap as the model keeps it
SentinelNew(rec, size) ==
    [ key     |-> 0,
      next    |-> rec_get_next_offs_new(infimum_supremum_compact, rec),
      n_owned |-> rec_get_n_owned_new(infimum_supremum_compact, rec),
      heap_no |-> rec_get_heap_no_new(infimum_supremum_compact, rec),
      status  |-> rec_get_status(infimum_supremum_compact, rec),
      extra   |-> REC_N_NEW_EXTRA_BYTES,
      size    |-> size ]

SentinelOld(rec, size) ==
    [ key     |-> 0,
      next    |-> rec_get_next_offs_old(infimum_supremum_redundant, rec),
      n_owned |-> rec_get_n_owned_old(infimum_supremum_redundant, rec),
      heap_no |-> rec_get_heap_no_old(infimum_supremum_redundant, rec),
      status  |-> 0,
      extra   |-> REC_N_OLD_EXTRA_BYTES + 1,
      size    |-> size ]

(***************************************************************************)
(* Page header and directory accessors (page0page.ic).                     *)
(***************************************************************************)
page_dir_get_n_heap(p) == p.n_heap % PAGE_N_HEAP_COMP_FLAG
page_is_comp(p) == p.n_heap >= PAGE_N_HEAP_COMP_FLAG
page_dir_set_n_heap(p, n_heap) ==
    [p EXCEPT !.n_heap = n_heap + (IF page_is_comp(p) THEN PAGE_N_HEAP_COMP_FLAG ELSE 0)]
page_dir_get_n_slots(p) == p.n_dir_slots
page_get_n_recs(p) == p.n_recs

\* the address of the n:th directory slot
page_dir_get_nth_slot(n) == UNIV_PAGE_SIZE - PAGE_DIR - (n + 1) * PAGE_DIR_SLOT_SIZE

page_get_infimum_rec(p) == IF page_is_comp(p) THEN PAGE_NEW_INFIMUM ELSE PAGE_OLD_INFIMUM
page_get_supremum_rec(p) == IF page_is_comp(p) THEN PAGE_NEW_SUPREMUM ELSE PAGE_OLD_SUPREMUM
page_rec_is_infimum(p, rec) == rec = page_get_infimum_rec(p)
page_rec_is_supremum(p, rec) == rec = page_get_supremum_rec(p)
page_rec_is_user_rec(p, rec) == ~page_rec_is_infimum(p, rec) /\ ~page_rec_is_supremum(p, rec)

\* slot n of the directory; a slot never written since page creation holds 0
page_dir_slot_get_rec(p, n) == IF n + 1 <= Len(p.dir) THEN p.dir[n + 1] ELSE 0
DirSet(dir, n, rec) ==
    [j \in 1..Max(Len(dir), n + 1) |->
        IF j = n + 1 THEN rec ELSE IF j <= Len(dir) THEN dir[j] ELSE 0]
page_dir_slot_set_rec(p, n, rec) == [p EXCEPT !.dir = DirSet(p.dir, n, rec)]
page_dir_slot_get_n_owned(p, n) == p.rec[page_dir_slot_get_rec(p, n)].n_owned
page_dir_slot_set_n_owned(p, n, n_owned) ==
    [p EXCEPT !.rec[page_dir_slot_get_rec(p, n)].n_owned = n_owned]

rec_get_next_offs(p, rec) == p.rec[rec].next
page_rec_get_next(p, rec) == p.rec[rec].next
page_rec_set_next(p, rec, next) == [p EXCEPT !.rec[rec].next = next]

(***************************************************************************)
(* page_create_low.  The private part of the page header is zeroed         *)
(* (PAGE_LEVEL and PAGE_INDEX_ID lie behind PAGE_HEADER_PRIV_END and       *)
(* stay), single bytes of the 2-byte header fields and slots are written,  *)
(* the two sentinels are copied to PAGE_DATA, and the frame from the end   *)
(* of the supremum up to the page trailer, the directory included, is      *)
(* zeroed before the low bytes of slots 0 and 1 are written.               *)
(***************************************************************************)
\* a buffer block that never held an index page: its frame and its modify
\* clock
FreshFrame ==
    [ n_dir_slots |-> 0, heap_top |-> 0, n_heap |-> 0, free |-> 0, garbage |-> 0,
      last_insert |-> 0, n_recs |-> 0, max_trx_id |-> 0, level |-> 0,
      modify_clock |-> 0,
      dir |-> << >>, rec |-> << >> ]

\* the modify clock of the block of the page counts one more
buf_block_modify_clock_inc(p) == [p EXCEPT !.modify_clock = @ + 1]

\* a 2-byte field after its high byte (page[f]) or low byte (page[f + 1]) is written
SetHighByte(field, byte) == byte * 256 + (field % 256)
SetLowByte(field, byte) == (field \div 256) * 256 + byte

\* the heap after the memcpy of the sentinels and the memset behind them
SentinelHeap(comp) ==
    IF comp
    THEN (PAGE_NEW_INFIMUM :> SentinelNew(PAGE_NEW_INFIMUM, 13))
         @@ (PAGE_NEW_SUPREMUM :> SentinelNew(PAGE_NEW_SUPREMUM, 13))
    ELSE (PAGE_OLD_INFIMUM :> SentinelOld(PAGE_OLD_INFIMUM, 15))
         @@ (PAGE_OLD_SUPREMUM :> SentinelOld(PAGE_OLD_SUPREMUM, 16))

\* a variant of page_create_low without the memset of the page header
page_create_low_no_memset(p, comp) ==
    [ buf_block_modify_clock_inc(p) EXCEPT
        !.n_dir_slots = SetLowByte(p.n_dir_slots, 2),
        !.n_heap      = SetLowByte(IF comp THEN SetHighByte(p.n_heap, 128)
                                   ELSE p.n_heap,
                                   PAGE_HEAP_NO_USER_LOW),
        !.heap_top    = SetLowByte(p.heap_top,
                                   IF comp THEN PAGE_NEW_SUPREMUM_END
                                   ELSE PAGE_OLD_SUPREMUM_END),
        !.rec         = SentinelHeap(comp),
        !.dir         = << SetLowByte(0, IF comp THEN PAGE_NEW_INFIMUM
                                         ELSE PAGE_OLD_INFIMUM),
                           SetLowByte(0, IF comp THEN PAGE_NEW_SUPREMUM
                                         ELSE PAGE_OLD_SUPREMUM) >> ]

page_create_low(p, comp) ==
    LET zeroed == [ buf_block_modify_clock_inc(p) EXCEPT !.n_dir_slots = 0, !.heap_top = 0, !.n_heap = 0,
                             !.free = 0, !.garbage = 0, !.last_insert = 0,
                             !.n_recs = 0, !.max_trx_id = 0 ]
    IN  [ zeroed EXCEPT
            !.n_dir_slots = SetLowByte(zeroed.n_dir_slots, 2),
            !.n_heap      = SetLowByte(IF comp THEN SetHighByte(zeroed.n_heap, 128)
                                       ELSE zeroed.n_heap,
                                       PAGE_HEAP_NO_USER_LOW),
            !.heap_top    = SetLowByte(zeroed.heap_top,
                                       IF comp THEN PAGE_NEW_SUPREMUM_END
                                       ELSE PAGE_OLD_SUPREMUM_END),
            !.rec         = SentinelHeap(comp),
            !.dir         = << SetLowByte(0, IF comp THEN PAGE_NEW_INFIMUM
                                             ELSE PAGE_OLD_INFIMUM),
                               SetLowByte(0, IF comp THEN PAGE_NEW_SUPREMUM
                                             ELSE PAGE_OLD_SUPREMUM) >> ]

(***************************************************************************)
(* Walking the record list.  The loops of the code run until they meet     *)
(* their record; on a page whose list is broken they run off the frame.    *)
(* The walks below stop after as many steps as the heap has records and    *)
(* then return the NULL offset.                                            *)
(***************************************************************************)
Fuel(p) == Cardinality(DOMAIN p.rec)

RECURSIVE ListFrom(_, _, _)
\* the offsets met from rec on, following next-pointers, rec included
ListFrom(p, rec, fuel) ==
    IF rec = 0 \/ rec \notin DOMAIN p.rec \/ fuel = 0 THEN << >>
    ELSE <<rec>> \o ListFrom(p, p.rec[rec].next, fuel - 1)

\* the record list: infimum, the user records, supremum
RecList(p) == ListFrom(p, page_get_infimum_rec(p), Fuel(p) + 1)
\* the free list from PAGE_FREE
FreeList(p) == ListFrom(p, p.free, Fuel(p) + 1)

RECURSIVE NthNext(_, _, _)
\* rec after n calls of page_rec_get_next
NthNext(p, rec, n) ==
    IF n = 0 \/ rec = 0 \/ rec \notin DOMAIN p.rec THEN rec
    ELSE NthNext(p, p.rec[rec].next, n - 1)

RECURSIVE OwnerRec(_, _, _)
\* the first record from rec on whose n_owned is not 0
OwnerRec(p, rec, fuel) ==
    IF rec = 0 \/ rec \notin DOMAIN p.rec \/ fuel = 0 THEN 0
    ELSE IF p.rec[rec].n_owned # 0 THEN rec
    ELSE OwnerRec(p, p.rec[rec].next, fuel - 1)

RECURSIVE ScanSlotAbove(_, _, _)
\* a scan of the directory that gives up when it reaches the first slot
ScanSlotAbove(p, rec_offs, n) ==
    IF n = 0 THEN -1
    ELSE IF page_dir_slot_get_rec(p, n) = rec_offs THEN n
    ELSE ScanSlotAbove(p, rec_offs, n - 1)

RECURSIVE ScanSlot(_, _, _)
\* the scan of the directory from slot n down to slot 0 for the slot that
\* holds rec_offs; -1 is the ut_error of the code
ScanSlot(p, rec_offs, n) ==
    IF page_dir_slot_get_rec(p, n) = rec_offs THEN n
    ELSE IF n = 0 THEN -1
    ELSE ScanSlot(p, rec_offs, n - 1)

page_dir_find_owner_slot(p, rec) ==
    ScanSlot(p, OwnerRec(p, rec, Fuel(p) + 1), page_dir_get_n_slots(p) - 1)

RECURSIVE PrevWalk(_, _, _, _, _)
PrevWalk(p, rec, rec2, prev_rec, fuel) ==
    IF rec2 = rec THEN prev_rec
    ELSE IF rec2 = 0 \/ rec2 \notin DOMAIN p.rec \/ fuel = 0 THEN 0
    ELSE PrevWalk(p, rec, p.rec[rec2].next, rec2, fuel - 1)

\* the predecessor of rec in the record list: the walk starts at the record
\* of the slot below the owner slot; 0 where the code asserts (ut_a)
page_rec_get_prev(p, rec) ==
    LET slot_no == page_dir_find_owner_slot(p, rec)
    IN  IF slot_no <= 0 THEN 0
        ELSE PrevWalk(p, rec, page_dir_slot_get_rec(p, slot_no - 1), 0, Fuel(p) + 1)

(***************************************************************************)
(* The heap allocator.                                                     *)
(***************************************************************************)
page_dir_calc_reserved_space(n_recs) ==
    (PAGE_DIR_SLOT_SIZE * n_recs + PAGE_DIR_SLOT_MIN_N_OWNED - 1)
        \div PAGE_DIR_SLOT_MIN_N_OWNED

page_get_free_space_of_empty(comp) ==
    UNIV_PAGE_SIZE
    - (IF comp THEN PAGE_NEW_SUPREMUM_END ELSE PAGE_OLD_SUPREMUM_END)
    - PAGE_DIR - 2 * PAGE_DIR_SLOT_SIZE

\* the free region between heap_top and the slot array that is left once
\* the directory space for n_recs more records of the heap is reserved
page_get_max_insert_size(p, n_recs) ==
    LET occupied == p.heap_top
                    - (IF page_is_comp(p) THEN PAGE_NEW_SUPREMUM_END
                                          ELSE PAGE_OLD_SUPREMUM_END)
                    + page_dir_calc_reserved_space(
                          n_recs + page_dir_get_n_heap(p) - 2)
        free_space == page_get_free_space_of_empty(page_is_comp(p))
    IN  IF occupied > free_space THEN 0 ELSE free_space - occupied

\* variants of page_mem_alloc_heap with one fault each:
\* the available space is not compared with need
page_mem_alloc_heap_unchecked(p, need, heap_no) ==
    LET block == p.heap_top
        n     == page_dir_get_n_heap(p)
    IN  [ page    |-> page_dir_set_n_heap([p EXCEPT !.heap_top = block + need], 1 + n),
          block   |-> block,
          heap_no |-> n ]

\* the number of heap records is not incremented
page_mem_alloc_heap_same_n_heap(p, need, heap_no) ==
    LET avl_space == page_get_max_insert_size(p, 1)
        block     == p.heap_top
        n         == page_dir_get_n_heap(p)
    IN  IF avl_space >= need
        THEN [ page    |-> [p EXCEPT !.heap_top = block + need],
               block   |-> block,
               heap_no |-> n ]
        ELSE [ page |-> p, block |-> 0, heap_no |-> heap_no ]

\* the head of the free list is handed out when it is large enough
page_mem_alloc_heap_from_free(p, need, heap_no) ==
    LET avl_space == page_get_max_insert_size(p, 1)
        block     == p.heap_top
        n         == page_dir_get_n_heap(p)
        free_rec  == p.free
    IN  IF free_rec # 0 /\ p.rec[free_rec].size >= need
        THEN [ page    |-> [p EXCEPT !.free = p.rec[free_rec].next,
                                     !.garbage = p.garbage - need],
               block   |-> free_rec - p.rec[free_rec].extra,
               heap_no |-> p.rec[free_rec].heap_no ]
        ELSE IF avl_space >= need
        THEN [ page    |-> page_dir_set_n_heap(
                               [p EXCEPT !.heap_top = block + need], 1 + n),
               block   |-> block,
               heap_no |-> n ]
        ELSE [ page |-> p, block |-> 0, heap_no |-> heap_no ]

\* *heap_no is written before the available space is compared with need
page_mem_alloc_heap_early_heap_no(p, need, heap_no) ==
    LET avl_space == page_get_max_insert_size(p, 1)
        block     == p.heap_top
        n         == page_dir_get_n_heap(p)
    IN  IF avl_space >= need
        THEN [ page    |-> page_dir_set_n_heap(
                               [p EXCEPT !.heap_top = block + need], 1 + n),
               block   |-> block,
               heap_no |-> n ]
        ELSE [ page |-> p, block |-> 0, heap_no |-> n ]

\* a variant of page_mem_alloc_heap that counts the modify clock of the block
page_mem_alloc_heap_clocked(p, need, heap_no) ==
    LET avl_space == page_get_max_insert_size(p, 1)
        block     == p.heap_top
        n         == page_dir_get_n_heap(p)
    IN  IF avl_space >= need
        THEN [ page    |-> page_dir_set_n_heap(
                               [buf_block_modify_clock_inc(p)
                                    EXCEPT !.heap_top = block + need], 1 + n),
               block   |-> block,
               heap_no |-> n ]
        ELSE [ page |-> p, block |-> 0, heap_no |-> heap_no ]

\* page_mem_alloc_heap(page, page_zip, need, &heap_no): the page after the
\* call, the returned pointer (0 is NULL) and the content of *heap_no after
\* the call, heap_no being its content before
page_mem_alloc_heap(p, need, heap_no) ==
    LET avl_space == page_get_max_insert_size(p, 1)
        block     == p.heap_top
        n         == page_dir_get_n_heap(p)
    IN  IF avl_space >= need
        THEN [ page    |-> page_dir_set_n_heap(
                               [p EXCEPT !.heap_top = block + need], 1 + n),
               block   |-> block,
               heap_no |-> n ]
        ELSE [ page |-> p, block |-> 0, heap_no |-> heap_no ]

(***************************************************************************)
(* Directory maintenance.                                                  *)
(***************************************************************************)
\* page_dir_add_slot: one slot more, the slots above start moved up by one;
\* slot start + 1 keeps what it held
page_dir_add_slot(p, start) ==
    LET n_slots == page_dir_get_n_slots(p)
        moved   == [j \in 1..Max(Len(p.dir), n_slots + 1) |->
                       IF j - 1 >= start + 2 /\ j - 1 <= n_slots
                       THEN page_dir_slot_get_rec(p, j - 2)
                       ELSE page_dir_slot_get_rec(p, j - 1)]
    IN  [p EXCEPT !.n_dir_slots = n_slots + 1, !.dir = moved]

\* a variant of page_dir_split_slot that puts the new slot half a record
\* further up the list
page_dir_split_slot_late(p, slot_no) ==
    LET n_owned == page_dir_slot_get_n_owned(p, slot_no)
        rec     == NthNext(p, page_dir_slot_get_rec(p, slot_no - 1),
                           (n_owned + 1) \div 2)
        p1      == page_dir_add_slot(p, slot_no - 1)
        p2      == page_dir_slot_set_rec(p1, slot_no, rec)
        p3      == page_dir_slot_set_n_owned(p2, slot_no, (n_owned + 1) \div 2)
    IN  page_dir_slot_set_n_owned(p3, slot_no + 1, n_owned \div 2)

\* a variant of page_dir_split_slot that gives both slots n_owned / 2
page_dir_split_slot_halves(p, slot_no) ==
    LET n_owned == page_dir_slot_get_n_owned(p, slot_no)
        rec     == NthNext(p, page_dir_slot_get_rec(p, slot_no - 1), n_owned \div 2)
        p1      == page_dir_add_slot(p, slot_no - 1)
        p2      == page_dir_slot_set_rec(p1, slot_no, rec)
        p3      == page_dir_slot_set_n_owned(p2, slot_no, n_owned \div 2)
    IN  page_dir_slot_set_n_owned(p3, slot_no + 1, n_owned \div 2)

page_dir_split_slot(p, slot_no) ==
    LET n_owned == page_dir_slot_get_n_owned(p, slot_no)
        rec     == NthNext(p, page_dir_slot_get_rec(p, slot_no - 1), n_owned \div 2)
        p1      == page_dir_add_slot(p, slot_no - 1)
        p2      == page_dir_slot_set_rec(p1, slot_no, rec)
        p3      == page_dir_slot_set_n_owned(p2, slot_no, n_owned \div 2)
    IN  page_dir_slot_set_n_owned(p3, slot_no + 1, n_owned - (n_owned \div 2))

\* a variant of page_dir_delete_slot that does not copy the slots down
page_dir_delete_slot_no_copy(p, slot_no) ==
    LET n_slots == page_dir_get_n_slots(p)
        n_owned == page_dir_slot_get_n_owned(p, slot_no)
        p1      == page_dir_slot_set_n_owned(p, slot_no, 0)
        p2      == page_dir_slot_set_n_owned(p1, slot_no + 1,
                       n_owned + page_dir_slot_get_n_owned(p1, slot_no + 1))
    IN  [p2 EXCEPT !.n_dir_slots = n_slots - 1]

page_dir_delete_slot(p, slot_no) ==
    LET n_slots == page_dir_get_n_slots(p)
        n_owned == page_dir_slot_get_n_owned(p, slot_no)
        p1      == page_dir_slot_set_n_owned(p, slot_no, 0)
        p2      == page_dir_slot_set_n_owned(p1, slot_no + 1,
                       n_owned + page_dir_slot_get_n_owned(p1, slot_no + 1))
        copied  == [j \in 1..Len(p2.dir) |->
                       IF j - 1 = n_slots - 1 THEN 0
                       ELSE IF j - 1 >= slot_no /\ j - 1 < n_slots - 1
                       THEN p2.dir[j + 1]
                       ELSE p2.dir[j]]
    IN  [p2 EXCEPT !.dir = copied, !.n_dir_slots = n_slots - 1]

\* a variant of page_dir_balance_slot that always merges the slot into the
\* upper slot
page_dir_balance_slot_merge(p, slot_no) ==
    IF slot_no = page_dir_get_n_slots(p) - 1 THEN p
    ELSE page_dir_delete_slot(p, slot_no)

\* a variant of page_dir_balance_slot that takes a record from an upper slot
\* that owns only the minimum
page_dir_balance_slot_greedy(p, slot_no) ==
    IF slot_no = page_dir_get_n_slots(p) - 1 THEN p
    ELSE
        LET n_owned    == page_dir_slot_get_n_owned(p, slot_no)
            up_n_owned == page_dir_slot_get_n_owned(p, slot_no + 1)
            old_rec    == page_dir_slot_get_rec(p, slot_no)
            new_rec    == rec_get_next_offs(p, old_rec)
            p1         == [p EXCEPT !.rec[old_rec].n_owned = 0,
                                    !.rec[new_rec].n_owned = n_owned + 1]
            p2         == page_dir_slot_set_rec(p1, slot_no, new_rec)
        IN  IF up_n_owned >= PAGE_DIR_SLOT_MIN_N_OWNED
            THEN page_dir_slot_set_n_owned(p2, slot_no + 1, up_n_owned - 1)
            ELSE page_dir_delete_slot(p, slot_no)

page_dir_balance_slot(p, slot_no) ==
    IF slot_no = page_dir_get_n_slots(p) - 1 THEN p
    ELSE
        LET n_owned    == page_dir_slot_get_n_owned(p, slot_no)
            up_n_owned == page_dir_slot_get_n_owned(p, slot_no + 1)
            old_rec    == page_dir_slot_get_rec(p, slot_no)
            new_rec    == rec_get_next_offs(p, old_rec)
            p1         == [p EXCEPT !.rec[old_rec].n_owned = 0,
                                    !.rec[new_rec].n_owned = n_owned + 1]
            p2         == page_dir_slot_set_rec(p1, slot_no, new_rec)
        IN  IF up_n_owned > PAGE_DIR_SLOT_MIN_N_OWNED
            THEN page_dir_slot_set_n_owned(p2, slot_no + 1, up_n_owned - 1)
            ELSE page_dir_delete_slot(p, slot_no)

(***************************************************************************)
(* The index descriptor and the entries of the callers.  An entry is a     *)
(* 4-byte key and a variable-length payload, whose length the key fixes.   *)
(***************************************************************************)
Keys == 1..MaxKey
PayloadLen(key) == 2 * (key % 2)
\* rec_offs_extra_size and rec_offs_size of the record of an entry: the
\* fixed extra bytes and one length byte (compact) or two 1-byte field end
\* offsets (redundant), the key and the payload
entry_extra_size(comp) ==
    IF comp THEN REC_N_NEW_EXTRA_BYTES + 1 ELSE REC_N_OLD_EXTRA_BYTES + 2
entry_size(comp, key) == entry_extra_size(comp) + 4 + PayloadLen(key)

dict_index_is_sec_or_ibuf(idx) == idx.sec
dict_table_is_temporary(idx) == idx.temp
page_is_leaf(p) == p.level = 0

(***************************************************************************)
(* The mini-transaction: its log mode and the redo log records written to  *)
(* it.  A record is written only if the mode is not MTR_LOG_NONE.          *)
(***************************************************************************)
NewMtr == [log_mode |-> "MTR_LOG_ALL", log |-> << >>]
mlog_write(mtr, type, offs) ==
    IF mtr.log_mode = "MTR_LOG_NONE" THEN mtr
    ELSE [mtr EXCEPT !.log = Append(mtr.log, [type |-> type, offs |-> offs])]
\* a variant of mtr_set_log_mode that leaves the log mode as it is
mtr_set_log_mode_ignored(mtr, mode) == mtr
mtr_set_log_mode(mtr, mode) == [mtr EXCEPT !.log_mode = mode]

(***************************************************************************)
(* The result of an operation: the page and the mini-transaction after it, *)
(* what it returned (a pointer is a page offset, 0 is NULL or void), and   *)
(* whether it ended in ut_error (the server aborts).                       *)
(***************************************************************************)
Result(p, ret, mtr) == [page |-> p, ret |-> ret, mtr |-> mtr, fatal |-> FALSE]
Fatal(p, mtr) == [page |-> p, ret |-> 0, mtr |-> mtr, fatal |-> TRUE]
\* the result r of an operation that called the directory function fn on
\* the page p with the slot slot_no: the call is noted in the result
Called(r, fn, p, slot_no) ==
    r @@ [dir_call |-> [fn |-> fn, page |-> p, slot_no |-> slot_no]]

\* a variant of page_update_max_trx_id that also lowers PAGE_MAX_TRX_ID
page_update_max_trx_id_set(p, trx_id) == [p EXCEPT !.max_trx_id = trx_id]

\* page_set_max_trx_id on an uncompressed page
page_set_max_trx_id(p, trx_id) == [p EXCEPT !.max_trx_id = trx_id]

page_update_max_trx_id(p, trx_id) ==
    IF p.max_trx_id < trx_id THEN page_set_max_trx_id(p, trx_id) ELSE p

\* page_create: the log record of the page creation, then page_create_low
page_create(p, mtr, comp, is_rtree) ==
    Result(page_create_low(p, comp), 0,
           mlog_write(mtr,
                      IF is_rtree
                      THEN (IF comp THEN "MLOG_COMP_PAGE_CREATE_RTREE"
                                    ELSE "MLOG_PAGE_CREATE_RTREE")
                      ELSE (IF comp THEN "MLOG_COMP_PAGE_CREATE"
                                    ELSE "MLOG_PAGE_CREATE"),
                      0))

\* page_create_empty of an uncompressed page
page_create_empty(p, idx, mtr) ==
    LET max_trx_id == IF dict_index_is_sec_or_ibuf(idx)
                         /\ ~dict_table_is_temporary(idx)
                         /\ page_is_leaf(p)
                      THEN p.max_trx_id ELSE 0
        created    == page_create(p, mtr, page_is_comp(p), idx.spatial)
    IN  IF max_trx_id # 0
        THEN Result(page_update_max_trx_id(created.page, max_trx_id), 0,
                    mlog_write(created.mtr, "MLOG_8BYTES", 0))
        ELSE created

(***************************************************************************)
(* Insert and delete of a single record at a page cursor (page0cur.cc).    *)
(***************************************************************************)
\* a variant of page_cur_insert_rec_owned that splits the slot one insert
\* later, when it owned PAGE_DIR_SLOT_MAX_N_OWNED + 1 records before
page_cur_insert_rec_owned_later(p2, ins, owner, logged, mtr) ==
    LET n_owned == p2.rec[owner].n_owned
        p3      == [p2 EXCEPT !.rec[owner].n_owned = n_owned + 1]
        slot_no == page_dir_find_owner_slot(p3, owner)
    IN  IF owner = 0 THEN Fatal(p2, mtr)
        ELSE IF n_owned # PAGE_DIR_SLOT_MAX_N_OWNED + 1 THEN Result(p3, ins, logged)
        ELSE IF slot_no <= 0 THEN Fatal(p3, mtr)
        ELSE Result(page_dir_split_slot(p3, slot_no), ins, logged)

\* the end of page_cur_insert_rec_low: owner, the record that owns the new
\* record ins, counts one record more, and its slot is split when it owned
\* PAGE_DIR_SLOT_MAX_N_OWNED records before
page_cur_insert_rec_owned(p2, ins, owner, logged, mtr) ==
    LET n_owned == p2.rec[owner].n_owned
        p3      == [p2 EXCEPT !.rec[owner].n_owned = n_owned + 1]
        slot_no == page_dir_find_owner_slot(p3, owner)
    IN  IF owner = 0 THEN Fatal(p2, mtr)
        ELSE IF n_owned # PAGE_DIR_SLOT_MAX_N_OWNED THEN Result(p3, ins, logged)
        ELSE IF slot_no <= 0 THEN Fatal(p3, mtr)
        ELSE Called(Result(page_dir_split_slot(p3, slot_no), ins, logged),
                    "page_dir_split_slot", p3, slot_no)

\* the middle of page_cur_insert_rec_low: the record is written at ins with
\* the heap number heap_no and linked behind current_rec; reused is the
\* record of the free list whose place it takes, 0 if it is a new block
page_cur_insert_rec_write(p1, current_rec, key, ins, heap_no, reused, mtr) ==
    LET comp     == page_is_comp(p1)
        newrec   == [ key |-> key, next |-> p1.rec[current_rec].next, n_owned |-> 0,
                      heap_no |-> heap_no, status |-> 0,
                      extra |-> entry_extra_size(comp),
                      size |-> entry_size(comp, key) ]
        heap     == [o \in ((DOMAIN p1.rec) \ {reused}) \cup {ins} |->
                        IF o = ins THEN newrec
                        ELSE IF o = current_rec THEN [p1.rec[o] EXCEPT !.next = ins]
                        ELSE p1.rec[o]]
        p2       == [p1 EXCEPT !.rec = heap, !.n_recs = p1.n_recs + 1,
                               !.last_insert = ins]
    IN  page_cur_insert_rec_owned(
            p2, ins, OwnerRec(p2, ins, Fuel(p2) + 1),
            mlog_write(mtr, IF comp THEN "MLOG_COMP_REC_INSERT"
                            ELSE "MLOG_REC_INSERT", current_rec),
            mtr)

\* page_cur_insert_rec_low when the heap is asked: alloc is what
\* page_mem_alloc_heap gave
page_cur_insert_rec_alloc(p, alloc, current_rec, key, mtr) ==
    IF alloc.block = 0 THEN Result(p, 0, mtr)
    ELSE page_cur_insert_rec_write(alloc.page, current_rec, key,
                                   alloc.block + entry_extra_size(page_is_comp(p)),
                                   alloc.heap_no, 0, mtr)

\* a variant of page_cur_insert_rec_low that takes the size of the reused
\* record of the free list off the garbage
page_cur_insert_rec_low_cell(p, current_rec, key, mtr) ==
    LET comp     == page_is_comp(p)
        rec_size == entry_size(comp, key)
        free_rec == p.free
    IN  IF free_rec # 0 /\ p.rec[free_rec].size >= rec_size
        THEN page_cur_insert_rec_write(
                 [p EXCEPT !.free = p.rec[free_rec].next,
                           !.garbage = p.garbage - p.rec[free_rec].size],
                 current_rec, key,
                 free_rec - p.rec[free_rec].extra + entry_extra_size(comp),
                 p.rec[free_rec].heap_no, free_rec, mtr)
        ELSE page_cur_insert_rec_alloc(p, page_mem_alloc_heap(p, rec_size, 0),
                                       current_rec, key, mtr)

\* page_cur_insert_rec_low: the record of the entry with the given key is
\* inserted after current_rec.  The head of the free list is reused if it
\* is large enough (page_mem_alloc_free: the free list advances, the garbage
\* shrinks), else the heap is asked.
page_cur_insert_rec_low(p, current_rec, key, mtr) ==
    LET comp     == page_is_comp(p)
        rec_size == entry_size(comp, key)
        free_rec == p.free
    IN  IF free_rec # 0 /\ p.rec[free_rec].size >= rec_size
        THEN page_cur_insert_rec_write(
                 [p EXCEPT !.free = p.rec[free_rec].next,
                           !.garbage = p.garbage - rec_size],
                 current_rec, key,
                 free_rec - p.rec[free_rec].extra + entry_extra_size(comp),
                 p.rec[free_rec].heap_no, free_rec, mtr)
        ELSE page_cur_insert_rec_alloc(p, page_mem_alloc_heap(p, rec_size, 0),
                                       current_rec, key, mtr)

\* a variant of page_mem_free that puts the record behind the head of the
\* free list
page_mem_free_behind_head(p, rec) ==
    IF p.free = 0 THEN [p EXCEPT !.rec[rec].next = 0, !.free = rec,
                                 !.garbage = p.garbage + p.rec[rec].size,
                                 !.n_recs = p.n_recs - 1]
    ELSE [p EXCEPT !.rec[rec].next = p.rec[p.free].next,
                   !.rec[p.free].next = rec,
                   !.garbage = p.garbage + p.rec[rec].size,
                   !.n_recs = p.n_recs - 1]

\* a variant of page_mem_free that leaves PAGE_N_RECS as it is
page_mem_free_keep_n_recs(p, rec) ==
    [p EXCEPT !.rec[rec].next = p.free,
              !.free = rec,
              !.garbage = p.garbage + p.rec[rec].size]

\* page_mem_free: the record is put to the head of the free list
page_mem_free(p, rec) ==
    [p EXCEPT !.rec[rec].next = p.free,
              !.free = rec,
              !.garbage = p.garbage + p.rec[rec].size,
              !.n_recs = p.n_recs - 1]

\* page_cur_delete_rec: the user record rec is taken off the record list
page_cur_delete_rec(p, idx, rec, recv, mtr) ==
    LET cur_slot_no == page_dir_find_owner_slot(p, rec)
        cur_n_owned == page_dir_slot_get_n_owned(p, cur_slot_no)
        prev_rec    == PrevWalk(p, rec, page_dir_slot_get_rec(p, cur_slot_no - 1),
                                0, Fuel(p) + 1)
        next_rec    == page_rec_get_next(p, rec)
        p1          == [buf_block_modify_clock_inc(
                            page_rec_set_next(p, prev_rec, next_rec))
                            EXCEPT !.last_insert = 0]
        p2          == IF rec = page_dir_slot_get_rec(p1, cur_slot_no)
                       THEN page_dir_slot_set_rec(p1, cur_slot_no, prev_rec)
                       ELSE p1
        p3          == page_dir_slot_set_n_owned(p2, cur_slot_no, cur_n_owned - 1)
        p4          == page_mem_free(p3, rec)
        logged      == mlog_write(mtr, IF page_is_comp(p) THEN "MLOG_COMP_REC_DELETE"
                                       ELSE "MLOG_REC_DELETE", rec)
    IN  IF page_get_n_recs(p) = 1 /\ ~recv
        THEN page_create_empty(p, idx, mtr)
        ELSE IF cur_slot_no <= 0 \/ prev_rec = 0 THEN Fatal(p, mtr)
        ELSE IF cur_n_owned <= PAGE_DIR_SLOT_MIN_N_OWNED
        THEN Called(Result(page_dir_balance_slot(p4, cur_slot_no), 0, logged),
                    "page_dir_balance_slot", p4, cur_slot_no)
        ELSE Result(p4, 0, logged)

(***************************************************************************)
(* Deleting the end or the start of the record list.                       *)
(***************************************************************************)
ULINT_UNDEFINED == -1

RECURSIVE SizeFrom(_, _, _)
\* the sum of rec_offs_size over the records from rec up to the supremum
SizeFrom(p, rec, fuel) ==
    IF rec = 0 \/ rec \notin DOMAIN p.rec \/ fuel = 0 \/ page_rec_is_supremum(p, rec) THEN 0
    ELSE p.rec[rec].size + SizeFrom(p, p.rec[rec].next, fuel - 1)

RECURSIVE CountFrom(_, _, _)
\* the number of records from rec up to the supremum
CountFrom(p, rec, fuel) ==
    IF rec = 0 \/ rec \notin DOMAIN p.rec \/ fuel = 0 \/ page_rec_is_supremum(p, rec) THEN 0
    ELSE 1 + CountFrom(p, p.rec[rec].next, fuel - 1)

\* a variant of CountUnowned that takes rec for the first record of its group
CountUnowned_none(p, rec, fuel) == 0

RECURSIVE CountUnowned(_, _, _)
\* the number of records from rec on that precede the first owner record
CountUnowned(p, rec, fuel) ==
    IF rec = 0 \/ rec \notin DOMAIN p.rec \/ fuel = 0 \/ p.rec[rec].n_owned # 0 THEN 0
    ELSE 1 + CountUnowned(p, p.rec[rec].next, fuel - 1)

\* variants of RemoveChainSegment with one fault each:
\* the record in front of the segment keeps its next-record pointer
RemoveChainSegment_no_unlink(p, rec, prev_rec, last_rec, size, n_recs) ==
    LET p2 == page_rec_set_next(p, last_rec, p.free)
    IN  [p2 EXCEPT !.free = rec,
                   !.garbage = size + p2.garbage,
                   !.n_recs = p2.n_recs - n_recs]

\* the old free list is not catenated to the segment
RemoveChainSegment_drop_free(p, rec, prev_rec, last_rec, size, n_recs) ==
    LET p1 == page_rec_set_next(p, prev_rec, page_get_supremum_rec(p))
        p2 == page_rec_set_next(p1, last_rec, 0)
    IN  [p2 EXCEPT !.free = rec,
                   !.garbage = size + p2.garbage,
                   !.n_recs = p2.n_recs - n_recs]

\* a variant of RestoreLogMode that leaves the log mode as the loop left it
RestoreLogMode_kept(r, log_mode) == r
\* mtr_set_log_mode(mtr, log_mode) on the mini-transaction of a result
RestoreLogMode(r, log_mode) ==
    [r EXCEPT !.mtr = mtr_set_log_mode(r.mtr, log_mode)]

RECURSIVE DeleteEndLoop(_, _, _, _, _, _)
\* the end of one turn of the loop of page_delete_rec_list_end on a
\* compressed page: r is what page_cur_delete_rec gave, next the record that
\* followed the deleted one
DeleteEndNext(r, idx, next, recv, fuel) ==
    IF r.fatal \/ fuel = 0 \/ page_rec_is_supremum(r.page, next) THEN r
    ELSE DeleteEndLoop(r.page, idx, next, recv, r.mtr, fuel - 1)

\* the loop of page_delete_rec_list_end on a compressed page: rec and its
\* successors are deleted one by one with page_cur_delete_rec
DeleteEndLoop(p, idx, rec, recv, mtr, fuel) ==
    DeleteEndNext(page_cur_delete_rec(p, idx, rec, recv, mtr), idx,
                  page_rec_get_next(p, rec), recv, fuel)

\* the end of page_delete_rec_list_end: the chain segment from rec to last_rec
\* is removed from the record list and catenated to the free list, and the
\* garbage and the number of records are updated
RemoveChainSegment(p, rec, prev_rec, last_rec, size, n_recs) ==
    LET p1 == page_rec_set_next(p, prev_rec, page_get_supremum_rec(p))
        p2 == page_rec_set_next(p1, last_rec, p1.free)
    IN  [p2 EXCEPT !.free = rec,
                   !.garbage = size + p2.garbage,
                   !.n_recs = p2.n_recs - n_recs]

\* a variant of DeleteAll without the test for the first user record
DeleteAll_no_first(p, rec, n_recs, recv) ==
    ~recv /\ (page_rec_is_infimum(p, rec) \/ n_recs = page_get_n_recs(p))

\* whether page_delete_rec_list_end deletes all records by creating the page
\* anew: never while a redo log record is replayed
DeleteAll(p, rec, n_recs, recv) ==
    ~recv
    /\ (page_rec_is_infimum(p, rec)
        \/ n_recs = page_get_n_recs(p)
        \/ page_rec_get_next(p, page_get_infimum_rec(p)) = rec)

\* page_delete_rec_list_end; page_zip tells whether the page is compressed
\* (of the compressed page only the uncompressed frame is kept), recv is
\* recv_recovery_is_on()
\* the first write of page_delete_rec_list_end when it does not create the
\* page anew: PAGE_LAST_INSERT is reset
page_delete_rec_list_end_reset(p) == [p EXCEPT !.last_insert = 0]

page_delete_rec_list_end(p, page_zip, idx, rec, n_recs, size, recv, mtr) ==
    LET supremum   == page_get_supremum_rec(p)
        delete_all == DeleteAll(p, rec, n_recs, recv)
        p1         == buf_block_modify_clock_inc(page_delete_rec_list_end_reset(p))
        logged     == mlog_write(mtr, IF page_is_comp(p) THEN "MLOG_COMP_LIST_END_DELETE"
                                      ELSE "MLOG_LIST_END_DELETE", rec)
        prev_rec   == page_rec_get_prev(p1, rec)
        last_rec   == page_rec_get_prev(p1, supremum)
        unknown    == size = ULINT_UNDEFINED \/ n_recs = ULINT_UNDEFINED
        size2      == IF unknown THEN SizeFrom(p1, rec, Fuel(p1)) ELSE size
        n_recs2    == IF unknown THEN CountFrom(p1, rec, Fuel(p1)) ELSE n_recs
        count      == CountUnowned(p1, rec, Fuel(p1) + 1)
        rec2       == OwnerRec(p1, rec, Fuel(p1) + 1)
        n_owned    == p1.rec[rec2].n_owned - count
        slot_index == page_dir_find_owner_slot(p1, rec2)
        p2         == page_dir_slot_set_rec(p1, slot_index, supremum)
        p3         == page_dir_slot_set_n_owned(p2, slot_index, n_owned)
        p4         == [p3 EXCEPT !.n_dir_slots = slot_index + 1]
    IN  IF page_rec_is_supremum(p, rec) THEN Result(p, 0, mtr)
        ELSE IF delete_all THEN page_create_empty(p, idx, mtr)
        ELSE IF page_zip
        THEN IF ~page_is_comp(p) THEN Fatal(p1, logged)
             ELSE RestoreLogMode(
                      DeleteEndLoop(p1, idx, rec, recv,
                                    mtr_set_log_mode(logged, "MTR_LOG_NONE"),
                                    Fuel(p)),
                      logged.log_mode)
        ELSE IF prev_rec = 0 \/ last_rec = 0 \/ slot_index < 0 THEN Fatal(p1, logged)
        ELSE Result(RemoveChainSegment(p4, rec, prev_rec, last_rec, size2, n_recs2),
                    0, logged)

\* a variant of DeleteStartLoop that stops after the first record
DeleteStartLoop_once(p, idx, cur1, rec, recv, mtr, fuel) ==
    IF cur1 = rec \/ fuel = 0 THEN Result(p, 0, mtr)
    ELSE page_cur_delete_rec(p, idx, cur1, recv, mtr)

RECURSIVE DeleteStartLoop(_, _, _, _, _, _, _)
\* one turn of the loop of page_delete_rec_list_start: r is what
\* page_cur_delete_rec gave, next the record that followed the deleted one
DeleteStartNext(r, idx, next, rec, recv, fuel) ==
    IF r.fatal THEN r
    ELSE DeleteStartLoop(r.page, idx, next, rec, recv, r.mtr, fuel - 1)

\* the loop of page_delete_rec_list_start: the records in front of rec are
\* deleted one by one with page_cur_delete_rec
DeleteStartLoop(p, idx, cur1, rec, recv, mtr, fuel) ==
    IF cur1 = rec \/ fuel = 0 THEN Result(p, 0, mtr)
    ELSE DeleteStartNext(page_cur_delete_rec(p, idx, cur1, recv, mtr), idx,
                         page_rec_get_next(p, cur1), rec, recv, fuel)

page_delete_rec_list_start(p, idx, rec, recv, mtr) ==
    LET logged   == mlog_write(mtr, IF page_is_comp(p) THEN "MLOG_COMP_LIST_START_DELETE"
                                    ELSE "MLOG_LIST_START_DELETE", rec)
    IN  IF page_rec_is_infimum(p, rec) THEN Result(p, 0, mtr)
        ELSE IF page_rec_is_supremum(p, rec) THEN page_create_empty(p, idx, mtr)
        ELSE RestoreLogMode(
                 DeleteStartLoop(p, idx,
                                 page_rec_get_next(p, page_get_infimum_rec(p)),
                                 rec, recv,
                                 mtr_set_log_mode(logged, "MTR_LOG_NONE"),
                                 Fuel(p)),
                 logged.log_mode)

(***************************************************************************)
(* Copying records of another page of the same index to the page.  The     *)
(* other page, src, is only read.                                          *)
(***************************************************************************)
RECURSIVE CopyLoop(_, _, _, _, _, _, _)
\* one turn of the copy loop: r is what page_cur_insert_rec_low gave for the
\* record cur1 of src; a record that cannot be inserted is fatal
CopyNext(r, src, cur1, stop, fuel) ==
    IF r.fatal \/ r.ret = 0 THEN Fatal(r.page, r.mtr)
    ELSE CopyLoop(r.page, src, page_rec_get_next(src, cur1), stop,
                  r.ret, r.mtr, fuel - 1)

\* the loops of page_copy_rec_list_end_no_locks and page_copy_rec_list_start:
\* the records of src from cur1 up to stop are inserted one by one, each
\* after the one inserted before it; ret is the last record inserted
CopyLoop(new_page, src, cur1, stop, cur2, mtr, fuel) ==
    IF cur1 = stop \/ fuel = 0 THEN Result(new_page, cur2, mtr)
    ELSE CopyNext(page_cur_insert_rec_low(new_page, cur2, src.rec[cur1].key, mtr),
                  src, cur1, stop, fuel)

\* a variant of page_copy_rec_list_end_no_locks that inserts behind the last
\* record of new_page
page_copy_rec_list_end_no_locks_at_end(new_page, src, rec, mtr) ==
    LET cur1 == IF page_rec_is_infimum(src, rec) THEN page_rec_get_next(src, rec)
                ELSE rec
    IN  IF page_is_comp(new_page) # page_is_comp(src)
           \/ page_dir_slot_get_rec(new_page, 0) # page_get_infimum_rec(new_page)
        THEN Fatal(new_page, mtr)
        ELSE CopyLoop(new_page, src, cur1, page_get_supremum_rec(src),
                      page_rec_get_prev(new_page, page_get_supremum_rec(new_page)),
                      mtr, Fuel(src))

page_copy_rec_list_end_no_locks(new_page, src, rec, mtr) ==
    LET cur1 == IF page_rec_is_infimum(src, rec) THEN page_rec_get_next(src, rec)
                ELSE rec
    IN  IF page_is_comp(new_page) # page_is_comp(src)
           \/ page_dir_slot_get_rec(new_page, 0) # page_get_infimum_rec(new_page)
        THEN Fatal(new_page, mtr)
        ELSE CopyLoop(new_page, src, cur1, page_get_supremum_rec(src),
                      page_get_infimum_rec(new_page), mtr, Fuel(src))

RECURSIVE CopyToCreatedLoop(_, _, _, _)
\* the loop of page_copy_rec_list_end_to_created_page (page0cur.cc): the
\* records are written to the heap one behind the other, and every
\* (PAGE_DIR_SLOT_MAX_N_OWNED + 1) / 2 records get a directory slot
CopyToCreatedLoop(st, src, rec, fuel) ==
    IF page_rec_is_supremum(src, rec) \/ fuel = 0 THEN st
    ELSE
        LET np         == st.page
            comp       == page_is_comp(np)
            key        == src.rec[rec].key
            insert_rec == st.heap_top + entry_extra_size(comp)
            count      == st.count + 1
            full       == count = (PAGE_DIR_SLOT_MAX_N_OWNED + 1) \div 2
            newrec     == [ key |-> key, next |-> 0,
                            n_owned |-> IF full THEN count ELSE 0,
                            heap_no |-> PAGE_HEAP_NO_USER_LOW + st.n_recs,
                            status |-> 0, extra |-> entry_extra_size(comp),
                            size |-> entry_size(comp, key) ]
            heap       == [o \in (DOMAIN np.rec) \cup {insert_rec} |->
                              IF o = insert_rec THEN newrec
                              ELSE IF o = st.prev_rec
                              THEN [np.rec[o] EXCEPT !.next = insert_rec]
                              ELSE np.rec[o]]
            np1        == [np EXCEPT !.rec = heap]
            np2        == IF full
                          THEN page_dir_slot_set_rec(np1, st.slot_index + 1, insert_rec)
                          ELSE np1
        IN  CopyToCreatedLoop(
                [ page |-> np2, prev_rec |-> insert_rec,
                  heap_top |-> st.heap_top + entry_size(comp, key),
                  count |-> IF full THEN 0 ELSE count,
                  slot_index |-> IF full THEN st.slot_index + 1 ELSE st.slot_index,
                  n_recs |-> st.n_recs + 1 ],
                src, page_rec_get_next(src, rec), fuel - 1)

page_copy_rec_list_end_to_created_page(new_page, src, rec, mtr) ==
    LET first  == IF page_rec_is_infimum(src, rec) THEN page_rec_get_next(src, rec)
                  ELSE rec
        comp   == page_is_comp(new_page)
        st     == CopyToCreatedLoop(
                      [ page |-> new_page, prev_rec |-> page_get_infimum_rec(new_page),
                        heap_top |-> IF comp THEN PAGE_NEW_SUPREMUM_END
                                     ELSE PAGE_OLD_SUPREMUM_END,
                        count |-> 0, slot_index |-> 0, n_recs |-> 0 ],
                      src, first, Fuel(src))
        merge  == st.slot_index > 0
                  /\ st.count + 1 + (PAGE_DIR_SLOT_MAX_N_OWNED + 1) \div 2
                         <= PAGE_DIR_SLOT_MAX_N_OWNED
        count  == IF merge THEN st.count + (PAGE_DIR_SLOT_MAX_N_OWNED + 1) \div 2
                  ELSE st.count
        p1     == IF merge THEN page_dir_slot_set_n_owned(st.page, st.slot_index, 0)
                  ELSE st.page
        slot_index == IF merge THEN st.slot_index - 1 ELSE st.slot_index
        p2     == page_rec_set_next(p1, st.prev_rec, page_get_supremum_rec(p1))
        p3     == page_dir_slot_set_rec(p2, 1 + slot_index, page_get_supremum_rec(p2))
        p4     == page_dir_slot_set_n_owned(p3, 1 + slot_index, count + 1)
        p5     == page_dir_set_n_heap(
                      [p4 EXCEPT !.n_dir_slots = 2 + slot_index,
                                 !.heap_top = st.heap_top],
                      PAGE_HEAP_NO_USER_LOW + st.n_recs)
    IN  IF page_rec_is_supremum(src, first) THEN Result(new_page, 0, mtr)
        ELSE Result([p5 EXCEPT !.n_recs = st.n_recs, !.last_insert = 0], 0,
                    mlog_write(mtr, IF comp THEN "MLOG_COMP_LIST_END_COPY_CREATED"
                                    ELSE "MLOG_LIST_END_COPY_CREATED", 0))

RECURSIVE OwnedUpTo(_, _, _, _)
\* the sum of n_owned over the slots from i up to the slot of the record rec
OwnedUpTo(p, i, rec, fuel) ==
    IF fuel = 0 THEN 0
    ELSE page_dir_slot_get_n_owned(p, i)
         + (IF page_dir_slot_get_rec(p, i) = rec THEN 0
            ELSE OwnedUpTo(p, i + 1, rec, fuel - 1))

\* the number of records up to rec in the list, rec included
page_rec_get_n_recs_up_to(p, rec) ==
    OwnedUpTo(p, 0, OwnerRec(p, rec, Fuel(p) + 1), page_dir_get_n_slots(p))
    - CountUnowned(p, rec, Fuel(p) + 1)

\* page_rec_get_n_recs_before: the number of records in front of rec in the
\* list, the infimum included
page_rec_get_n_recs_before(p, rec) ==
    OwnedUpTo(p, 0, OwnerRec(p, rec, Fuel(p) + 1), page_dir_get_n_slots(p))
    - CountUnowned(p, rec, Fuel(p) + 1) - 1

RECURSIVE NthSlot(_, _, _, _)
\* the first slot from i on that owns more than nth records, nth being
\* lowered by what the slots in front of it own
NthSlot(p, i, nth, fuel) ==
    IF fuel = 0 \/ page_dir_slot_get_n_owned(p, i) > nth THEN [i |-> i, nth |-> nth]
    ELSE NthSlot(p, i + 1, nth - page_dir_slot_get_n_owned(p, i), fuel - 1)

\* page_rec_get_nth: the nth record of the list, the infimum being the 0th
page_rec_get_nth(p, nth) ==
    IF nth = 0 THEN page_get_infimum_rec(p)
    ELSE LET s == NthSlot(p, 0, nth, page_dir_get_n_slots(p))
         IN  NthNext(p, page_dir_slot_get_rec(p, s.i - 1), s.nth + 1)

(***************************************************************************)
(* The compressed page (page0zip.cc).  Of a compressed page the model      *)
(* keeps the uncompressed frame; its compressed image holds the page as it *)
(* was when it was last compressed, which is the frame at the call of a    *)
(* copy.  Whether page_zip_compress and page_zip_reorganize succeed        *)
(* depends on the data and on the size of the compressed page: the caller  *)
(* of a copy passes, as new_page_zip, NoZip for an uncompressed page and   *)
(* otherwise what the two functions will give.                             *)
(***************************************************************************)
NoZip == "NULL"
ZipOutcomes == {"compressed", "reorganized", "overflow"}

\* page_zip_reorganize when it succeeds: the page is created anew, the
\* records are copied back in their order, and PAGE_MAX_TRX_ID is kept
page_zip_reorganize(p, mtr) ==
    LET r == page_copy_rec_list_end_no_locks(
                 page_create_low(p, page_is_comp(p)), p, page_get_infimum_rec(p),
                 mtr_set_log_mode(mtr, "MTR_LOG_NONE"))
    IN  IF r.fatal THEN r
        ELSE Result([r.page EXCEPT !.max_trx_id = p.max_trx_id], 0,
                    mlog_write(mtr, "MLOG_ZIP_PAGE_REORGANIZE", 0))

\* the page and the mini-transaction r after a reorganization, and the
\* record at the place ret_pos of the list
SeekTo(r, ret_pos) ==
    IF r.fatal THEN r ELSE Result(r.page, page_rec_get_nth(r.page, ret_pos), r.mtr)

\* the end of a copy to a compressed page new_page, r being what the copy
\* gave: the log mode is restored and the page is compressed; if that
\* fails, it is reorganized and the returned record is sought again at its
\* place in the list, which is at least min_pos; if that fails too, the
\* frame is decompressed from the compressed image and NULL is returned
CopyCompress(new_page, new_page_zip, log_mode, r, min_pos) ==
    IF r.fatal \/ new_page_zip = NoZip THEN r
    ELSE IF new_page_zip = "compressed"
    THEN Result(r.page, r.ret,
                mlog_write(mtr_set_log_mode(r.mtr, log_mode),
                           "MLOG_ZIP_PAGE_COMPRESS", 0))
    ELSE IF page_rec_get_n_recs_before(r.page, r.ret) < min_pos
    THEN Fatal(r.page, mtr_set_log_mode(r.mtr, log_mode))
    ELSE IF new_page_zip = "reorganized"
    THEN SeekTo(page_zip_reorganize(r.page, mtr_set_log_mode(r.mtr, log_mode)),
                page_rec_get_n_recs_before(r.page, r.ret))
    ELSE Result(new_page, 0, mtr_set_log_mode(r.mtr, log_mode))

\* the end of page_copy_rec_list_end and page_copy_rec_list_start: copied
\* is what the copy gave; PAGE_MAX_TRX_ID of a leaf page of a secondary index
\* is raised to that of src, and ret is returned
CopyUpdateMaxTrxId(copied, src, idx, ret) ==
    IF dict_index_is_sec_or_ibuf(idx) /\ page_is_leaf(src)
       /\ ~dict_table_is_temporary(idx)
    THEN Result(page_update_max_trx_id(copied.page, src.max_trx_id), ret,
                copied.mtr)
    ELSE Result(copied.page, ret, copied.mtr)

page_copy_rec_list_end_copied(copied, src, idx, ret) ==
    IF copied.fatal THEN copied ELSE CopyUpdateMaxTrxId(copied, src, idx, ret)

\* the mini-transaction during a copy to the page: not logging if the page
\* is compressed
CopyMtr(new_page_zip, mtr) ==
    IF new_page_zip = NoZip THEN mtr ELSE mtr_set_log_mode(mtr, "MTR_LOG_NONE")

\* page_copy_rec_list_end to a page of an index that is not spatial; what is
\* returned is the record that followed the infimum of new_page before the
\* call, or NULL
page_copy_rec_list_end(new_page, new_page_zip, src, rec, idx, mtr) ==
    CopyCompress(
        new_page, new_page_zip, mtr.log_mode,
        page_copy_rec_list_end_copied(
            IF page_dir_get_n_heap(new_page) = PAGE_HEAP_NO_USER_LOW
            THEN page_copy_rec_list_end_to_created_page(
                     new_page, src, rec, CopyMtr(new_page_zip, mtr))
            ELSE page_copy_rec_list_end_no_locks(
                     new_page, src, rec, CopyMtr(new_page_zip, mtr)),
            src, idx,
            page_rec_get_next(new_page, page_get_infimum_rec(new_page))),
        1)

page_copy_rec_list_start_copied(copied, src, idx, ret) ==
    IF ret = 0 \/ copied.fatal THEN Fatal(copied.page, copied.mtr)
    ELSE CopyUpdateMaxTrxId(copied, src, idx, ret)

\* a variant of page_copy_rec_list_start_after that copies rec too
page_copy_rec_list_start_after_incl(new_page, src, rec, idx, ret, mtr) ==
    IF page_rec_is_infimum(src, rec) THEN Result(new_page, ret, mtr)
    ELSE page_copy_rec_list_start_copied(
             CopyLoop(new_page, src,
                      page_rec_get_next(src, page_get_infimum_rec(src)),
                      IF page_rec_is_supremum(src, rec) THEN rec
                      ELSE page_rec_get_next(src, rec),
                      ret, mtr, Fuel(src)),
             src, idx, ret)

\* page_copy_rec_list_start from ret on, the record that preceded the
\* supremum of new_page before the call
page_copy_rec_list_start_after(new_page, src, rec, idx, ret, mtr) ==
    IF page_rec_is_infimum(src, rec) THEN Result(new_page, ret, mtr)
    ELSE page_copy_rec_list_start_copied(
             CopyLoop(new_page, src,
                      page_rec_get_next(src, page_get_infimum_rec(src)),
                      rec, ret, mtr, Fuel(src)),
             src, idx, ret)

\* page_copy_rec_list_start to a page of an index that is not spatial; what
\* is returned is the record that preceded the supremum of new_page before
\* the call, or NULL
page_copy_rec_list_start(new_page, new_page_zip, src, rec, idx, mtr) ==
    IF page_rec_is_infimum(src, rec)
    THEN Result(new_page,
                page_rec_get_prev(new_page, page_get_supremum_rec(new_page)), mtr)
    ELSE CopyCompress(
             new_page, new_page_zip, mtr.log_mode,
             page_copy_rec_list_start_after(
                 new_page, src, rec, idx,
                 page_rec_get_prev(new_page, page_get_supremum_rec(new_page)),
                 CopyMtr(new_page_zip, mtr)),
             0)

(***************************************************************************)
(* Moving records to another page: the copy, then the delete.              *)
(***************************************************************************)
\* page_get_data_size (page0page.ic): the bytes the records in the list take
page_get_data_size(p) ==
    p.heap_top
    - (IF page_is_comp(p) THEN PAGE_NEW_SUPREMUM_END ELSE PAGE_OLD_SUPREMUM_END)
    - p.garbage

\* what a move gives: whether it succeeded, the page moved to, and the page
\* moved from with the mini-transaction as the delete r left them
Moved(ret, new_page, r) ==
    [ret |-> ret, new_page |-> new_page, page |-> r.page, mtr |-> r.mtr,
     fatal |-> r.fatal]

\* a variant of page_move_rec_list_end_copied that deletes from the page
\* whatever the copy returned
page_move_rec_list_end_always(copied, new_page, p, page_zip, split_rec, idx) ==
    Moved(copied.ret # 0, copied.page,
          page_delete_rec_list_end(
              p, page_zip, idx, split_rec, ULINT_UNDEFINED, ULINT_UNDEFINED,
              FALSE, copied.mtr))

\* page_move_rec_list_end after the copy, copied being what it gave
page_move_rec_list_end_copied(copied, new_page, p, page_zip, split_rec, idx) ==
    IF copied.fatal THEN Moved(FALSE, copied.page, Fatal(p, copied.mtr))
    ELSE IF copied.ret = 0 THEN Moved(FALSE, copied.page, Result(p, 0, copied.mtr))
    ELSE Moved(TRUE, copied.page,
               page_delete_rec_list_end(
                   p, page_zip, idx, split_rec,
                   page_get_n_recs(copied.page) - page_get_n_recs(new_page),
                   page_get_data_size(copied.page) - page_get_data_size(new_page),
                   FALSE, copied.mtr))

\* page_move_rec_list_end: the records of p from split_rec on are moved to
\* new_page; page_zip says whether p is compressed
page_move_rec_list_end(new_page, new_page_zip, p, page_zip, split_rec, idx, mtr) ==
    page_move_rec_list_end_copied(
        page_copy_rec_list_end(new_page, new_page_zip, p, split_rec, idx, mtr),
        new_page, p, page_zip, split_rec, idx)

\* page_move_rec_list_start after the copy, copied being what it gave
page_move_rec_list_start_copied(copied, p, split_rec, idx) ==
    IF copied.fatal THEN Moved(FALSE, copied.page, Fatal(p, copied.mtr))
    ELSE IF copied.ret = 0 THEN Moved(FALSE, copied.page, Result(p, 0, copied.mtr))
    ELSE Moved(TRUE, copied.page,
               page_delete_rec_list_start(p, idx, split_rec, FALSE, copied.mtr))

\* page_move_rec_list_start: the records of p in front of split_rec are
\* moved to new_page
page_move_rec_list_start(new_page, new_page_zip, p, split_rec, idx, mtr) ==
    page_move_rec_list_start_copied(
        page_copy_rec_list_start(new_page, new_page_zip, p, split_rec, idx, mtr),
        p, split_rec, idx)

(***************************************************************************)
(* The state machine: one index page under the operations of its callers.  *)
(* The page is uncompressed.  The modify clock of its block is counted     *)
(* from the block as it was when the page was last created empty.          *)
(***************************************************************************)
\* the offsets of the user records in list order
UserRecs(p) ==
    LET l == RecList(p) IN SubSeq(l, 2, Len(l) - 1)
Range(f) == {f[i] : i \in DOMAIN f}
UserKeys(p) == {p.rec[r].key : r \in Range(UserRecs(p))}

\* where the search of the caller leaves the cursor for an entry with this
\* key: on the last record whose key is smaller, the infimum if there is none
CursorFor(p, key) ==
    LET l == RecList(p)
        n == Cardinality({i \in 2..(Len(l) - 1) : p.rec[l[i]].key < key})
    IN  l[n + 1]

\* the keys the callers insert: the page is filled in descending key order,
\* and the entry deleted last may be inserted again
InsertKeys(p) ==
    LET live  == UserKeys(p)
        mn    == CHOOSE k \in live : \A j \in live : j >= k
        freed == IF p.free = 0 THEN {} ELSE {p.rec[p.free].key}
    IN  IF live = {} THEN {MaxKey} \cup freed
        ELSE ({mn - 1} \cap Keys) \cup (freed \ live)

RECURSIVE Filled(_, _, _)
\* the page after the entries with the keys lo..hi are inserted into p in
\* ascending order
Filled(p, lo, hi) ==
    IF lo > hi THEN p
    ELSE Filled(page_cur_insert_rec_low(p, CursorFor(p, lo), lo, NewMtr).page,
                lo + 1, hi)

Min(a, b) == IF a <= b THEN a ELSE b

\* the other page of a copy to the start of p: it holds the keys next below
\* the keys of p, the largest keys if p is empty
SourceBelow(p) ==
    LET live == UserKeys(p)
        mn   == IF live = {} THEN MaxKey + 1
                ELSE CHOOSE k \in live : \A j \in live : j >= k
    IN  [Filled(page_create_low(FreshFrame, page_is_comp(p)),
                Max(1, mn - MaxCopyLen), mn - 1)
            EXCEPT !.max_trx_id = IF index.sec THEN MaxTrxId ELSE 0]

\* the other page of a copy to the end of p: it holds the keys next above
\* the keys of p, the largest keys if p is empty
SourceAbove(p) ==
    LET live == UserKeys(p)
        mx   == IF live = {} THEN MaxKey - MaxCopyLen
                ELSE CHOOSE k \in live : \A j \in live : j <= k
    IN  [Filled(page_create_low(FreshFrame, page_is_comp(p)),
                Max(1, mx + 1), Min(MaxKey, mx + MaxCopyLen))
            EXCEPT !.max_trx_id = IF index.sec THEN MaxTrxId ELSE 0]

\* the index of the page: clustered or secondary, of a table in the compact
\* or the redundant row format
IndexSet ==
    { [comp |-> c, sec |-> FALSE, temp |-> FALSE, spatial |-> FALSE] :
          c \in BOOLEAN }
    \cup { [comp |-> TRUE, sec |-> TRUE, temp |-> FALSE, spatial |-> FALSE] }

Workloads ==
    { [inserts |-> LoadInserts, deletes |-> LoadDeletes, copies |-> 0],
      [inserts |-> ChurnInserts, deletes |-> ChurnDeletes, copies |-> 0],
      [inserts |-> MergeInserts, deletes |-> MergeDeletes, copies |-> MergeCopies] }

NoCall == [made |-> FALSE, need |-> 0, block |-> 0, heap_no |-> 0, heap_no_in |-> 0,
           before |-> << >>]
NoneDone == [inserts |-> 0, deletes |-> 0, copies |-> 0]
Done(op, r) == [op |-> op, ret |-> r.ret, fatal |-> r.fatal, log |-> r.mtr.log]

Init ==
    /\ index \in IndexSet
    /\ workload \in Workloads
    /\ index.sec => workload.copies > 0
    /\ page = page_create_low(FreshFrame, index.comp)
    /\ last = [op |-> "page_create", ret |-> 0, fatal |-> FALSE, log |-> << >>]
    /\ call = NoCall
    /\ done = NoneDone

PageCreateEmpty ==
    /\ ~last.fatal
    /\ LET r == page_create_empty([page EXCEPT !.modify_clock = 0], index, NewMtr)
       IN  page' = r.page /\ last' = Done("page_create_empty", r)
    /\ call' = NoCall
    /\ done' = NoneDone
    /\ UNCHANGED <<index, workload>>

Insert ==
    /\ ~last.fatal /\ ~call.made
    /\ done.inserts < workload.inserts
    /\ \E key \in InsertKeys(page) :
          LET r == page_cur_insert_rec_low(page, CursorFor(page, key), key, NewMtr)
          IN  page' = r.page /\ last' = Done("page_cur_insert_rec_low", r)
    /\ done' = [done EXCEPT !.inserts = @ + 1]
    /\ UNCHANGED <<index, call, workload>>

Delete ==
    /\ ~last.fatal /\ ~call.made
    /\ done.deletes < workload.deletes
    /\ \E rec \in Range(UserRecs(page)) :
          LET r == page_cur_delete_rec(page, index, rec, FALSE, NewMtr)
          IN  page' = r.page /\ last' = Done("page_cur_delete_rec", r)
    /\ done' = [done EXCEPT !.deletes = @ + 1]
    /\ UNCHANGED <<index, call, workload>>

DeleteRecListEnd ==
    /\ ~last.fatal /\ ~call.made
    /\ done.deletes < workload.deletes
    /\ \E rec \in Range(RecList(page)), known \in BOOLEAN, recv \in BOOLEAN :
          /\ recv => (~known /\ ~page_rec_is_infimum(page, rec))
          /\ LET n    == IF page_rec_is_infimum(page, rec) THEN page_get_n_recs(page)
                         ELSE CountFrom(page, rec, Fuel(page))
                 size == IF page_rec_is_infimum(page, rec)
                         THEN SizeFrom(page, page_rec_get_next(page, rec), Fuel(page))
                         ELSE SizeFrom(page, rec, Fuel(page))
                 r    == page_delete_rec_list_end(page, FALSE, index, rec,
                             IF known THEN n ELSE ULINT_UNDEFINED,
                             IF known THEN size ELSE ULINT_UNDEFINED,
                             recv, NewMtr)
             IN  page' = r.page /\ last' = Done("page_delete_rec_list_end", r)
    /\ done' = [done EXCEPT !.deletes = @ + 1]
    /\ UNCHANGED <<index, call, workload>>

DeleteRecListStart ==
    /\ ~last.fatal /\ ~call.made
    /\ done.deletes < workload.deletes
    /\ \E rec \in Range(RecList(page)) :
          LET r == page_delete_rec_list_start(page, index, rec, FALSE, NewMtr)
          IN  page' = r.page /\ last' = Done("page_delete_rec_list_start", r)
    /\ done' = [done EXCEPT !.deletes = @ + 1]
    /\ UNCHANGED <<index, call, workload>>

\* the callers copy to a page only records that fit into it
CopyRecListEnd ==
    /\ ~last.fatal /\ ~call.made
    /\ done.copies < workload.copies
    /\ LET src == SourceBelow(page)
       IN  \E rec \in Range(RecList(src)) :
              LET first == IF page_rec_is_infimum(src, rec)
                           THEN page_rec_get_next(src, rec) ELSE rec
                  n     == CountFrom(src, first, Fuel(src))
                  r     == page_copy_rec_list_end(page, NoZip, src, rec, index, NewMtr)
              IN  /\ done.inserts + n <= workload.inserts
                  /\ SizeFrom(src, first, Fuel(src)) <= page_get_max_insert_size(page, n)
                  /\ page' = r.page
                  /\ last' = Done("page_copy_rec_list_end", r)
                  /\ done' = [done EXCEPT !.inserts = @ + n, !.copies = @ + 1]
    /\ UNCHANGED <<index, call, workload>>

CopyRecListStart ==
    /\ ~last.fatal /\ ~call.made
    /\ done.copies < workload.copies
    /\ LET src == SourceAbove(page)
       IN  \E rec \in Range(RecList(src)) :
              LET n     == CountFrom(src, page_rec_get_next(src, page_get_infimum_rec(src)),
                                     Fuel(src))
                           - CountFrom(src, rec, Fuel(src))
                  size  == SizeFrom(src, page_rec_get_next(src, page_get_infimum_rec(src)),
                                    Fuel(src))
                           - SizeFrom(src, rec, Fuel(src))
                  r     == page_copy_rec_list_start(page, NoZip, src, rec, index, NewMtr)
              IN  /\ done.inserts + n <= workload.inserts
                  /\ size <= page_get_max_insert_size(page, n)
                  /\ page' = r.page
                  /\ last' = Done("page_copy_rec_list_start", r)
                  /\ done' = [done EXCEPT !.inserts = @ + n, !.copies = @ + 1]
    /\ UNCHANGED <<index, call, workload>>

Next ==
    \/ PageCreateEmpty
    \/ Insert
    \/ Delete
    \/ DeleteRecListEnd
    \/ DeleteRecListStart
    \/ CopyRecListEnd
    \/ CopyRecListStart

Spec == Init /\ [][Next]_vars

(***************************************************************************)
(* A second specification: the heap allocator is also called directly, as  *)
(* a caller that needs need bytes does.  The call is recorded with the     *)
(* page before it; after it the page is only created anew.                 *)
(***************************************************************************)
AllocNeeds == {1, 2, 12}

AllocCall ==
    /\ ~last.fatal /\ ~call.made
    /\ \E need \in AllocNeeds :
          LET r == page_mem_alloc_heap(page, need, 0)
          IN  /\ page' = r.page
              /\ call' = [made |-> TRUE, need |-> need, block |-> r.block,
                          heap_no |-> r.heap_no, heap_no_in |-> 0, before |-> page]
              /\ last' = [op |-> "page_mem_alloc_heap", ret |-> r.block,
                          fatal |-> FALSE, log |-> << >>]
    /\ UNCHANGED <<index, workload, done>>

NextAlloc ==
    \/ PageCreateEmpty
    \/ Insert
    \/ Delete
    \/ DeleteRecListEnd
    \/ DeleteRecListStart
    \/ CopyRecListEnd
    \/ CopyRecListStart
    \/ AllocCall

SpecAlloc == Init /\ [][NextAlloc]_vars

(***************************************************************************)
(* A third specification: the directory functions page_dir_split_slot and  *)
(* page_dir_balance_slot are called as the insert and the delete of one    *)
(* record call them, on the page as it is at that call.  The call is       *)
(* recorded with the page before it; after it the page is only created     *)
(* anew, so these calls are not counted in the workload.                   *)
(***************************************************************************)
DirCall(c, after) ==
    /\ page' = after
    /\ call' = [made |-> TRUE, fn |-> c.fn, slot_no |-> c.slot_no, before |-> c.page]
    /\ last' = [op |-> c.fn, ret |-> 0, fatal |-> FALSE, log |-> << >>]

SplitCall ==
    /\ ~last.fatal /\ ~call.made
    /\ \E key \in InsertKeys(page) :
          LET r == page_cur_insert_rec_low(page, CursorFor(page, key), key, NewMtr)
          IN  /\ "dir_call" \in DOMAIN r
              /\ DirCall(r.dir_call,
                         page_dir_split_slot(r.dir_call.page, r.dir_call.slot_no))
    /\ UNCHANGED <<index, workload, done>>

BalanceCall ==
    /\ ~last.fatal /\ ~call.made
    /\ \E rec \in Range(UserRecs(page)) :
          LET r == page_cur_delete_rec(page, index, rec, FALSE, NewMtr)
          IN  /\ "dir_call" \in DOMAIN r
              /\ DirCall(r.dir_call,
                         page_dir_balance_slot(r.dir_call.page, r.dir_call.slot_no))
    /\ UNCHANGED <<index, workload, done>>

\* an entry with a key that is not on the page is inserted, and its record
\* is deleted at once; the call is recorded with the page before it and
\* with whether the insert split a slot
InsertDeleted(key, ins, del) ==
    /\ ~ins.fatal /\ ins.ret # 0
    /\ page' = del.page
    /\ call' = [made |-> TRUE, fn |-> "insert_delete", key |-> key, before |-> page,
                split |-> "dir_call" \in DOMAIN ins]
    /\ last' = Done("page_cur_delete_rec", del)

InsertDeleteCall ==
    /\ ~last.fatal /\ ~call.made
    /\ \E key \in Keys \ UserKeys(page) :
          \E ins \in {page_cur_insert_rec_low(page, CursorFor(page, key), key, NewMtr)} :
              InsertDeleted(key, ins,
                            page_cur_delete_rec(ins.page, index, ins.ret, FALSE, NewMtr))
    /\ UNCHANGED <<index, workload, done>>

NextDir ==
    \/ PageCreateEmpty
    \/ Insert
    \/ Delete
    \/ DeleteRecListEnd
    \/ DeleteRecListStart
    \/ SplitCall
    \/ BalanceCall
    \/ InsertDeleteCall

SpecDir == Init /\ [][NextDir]_vars

(***************************************************************************)
(* A fourth specification: the records of the page are moved to another    *)
(* page, as the split and the merge of B-tree pages do.  The other page    *)
(* is empty or holds the keys next to those of the page; in a compressed   *)
(* tablespace both pages are compressed, and the compression of the other  *)
(* page after the copy has any of its outcomes.  The call is recorded with *)
(* both pages before it and the other page after it; after it the page is  *)
(* only created anew.                                                      *)
(***************************************************************************)
\* what the compression of the other page may give
ZipsOf(p) == IF page_is_comp(p) THEN {NoZip} \cup ZipOutcomes ELSE {NoZip}

\* the records of p from rec on, rec itself if it is a user record, fit into
\* new_page
EndFits(new_page, p, rec) ==
    LET first == IF page_rec_is_infimum(p, rec) THEN page_rec_get_next(p, rec)
                 ELSE rec
    IN  SizeFrom(p, first, Fuel(p))
            <= page_get_max_insert_size(new_page, CountFrom(p, first, Fuel(p)))

\* the records of p in front of rec fit into new_page
StartFits(new_page, p, rec) ==
    LET first == page_rec_get_next(p, page_get_infimum_rec(p))
    IN  SizeFrom(p, first, Fuel(p)) - SizeFrom(p, rec, Fuel(p))
            <= page_get_max_insert_size(
                   new_page,
                   CountFrom(p, first, Fuel(p)) - CountFrom(p, rec, Fuel(p)))

\* the other pages of a move, next_to among them
Destinations(next_to) ==
    {page_create_low(FreshFrame, index.comp), next_to}

MoveCall(fn, new_page, zip, split_rec, r) ==
    /\ page' = r.page
    /\ call' = [made |-> TRUE, fn |-> fn, ret |-> r.ret, before |-> page,
                dst_before |-> new_page, dst |-> r.new_page,
                split_rec |-> split_rec, zip |-> zip]
    /\ last' = [op |-> fn, ret |-> r.ret, fatal |-> r.fatal, log |-> r.mtr.log]

MoveEndCall ==
    /\ ~last.fatal /\ ~call.made
    /\ workload.copies > 0
    /\ \E new_page \in Destinations(SourceAbove(page)), zip \in ZipsOf(page),
          split_rec \in Range(RecList(page)) :
          /\ EndFits(new_page, page, split_rec)
          /\ MoveCall("page_move_rec_list_end", new_page, zip, split_rec,
                      page_move_rec_list_end(new_page, zip, page, zip # NoZip,
                                             split_rec, index, NewMtr))
    /\ UNCHANGED <<index, workload, done>>

MoveStartCall ==
    /\ ~last.fatal /\ ~call.made
    /\ workload.copies > 0
    /\ \E new_page \in Destinations(SourceBelow(page)), zip \in ZipsOf(page),
          split_rec \in Range(RecList(page)) :
          /\ StartFits(new_page, page, split_rec)
          /\ MoveCall("page_move_rec_list_start", new_page, zip, split_rec,
                      page_move_rec_list_start(new_page, zip, page, split_rec,
                                               index, NewMtr))
    /\ UNCHANGED <<index, workload, done>>

NextMove ==
    \/ PageCreateEmpty
    \/ Insert
    \/ Delete
    \/ DeleteRecListEnd
    \/ DeleteRecListStart
    \/ MoveEndCall
    \/ MoveStartCall

SpecMove == Init /\ [][NextMove]_vars

(***************************************************************************)
(* A fifth specification: the page is only filled.  An entry is inserted   *)
(* below the smallest key of the page, as in the other specifications, or  *)
(* above its largest key; the first entry of a page has any key.           *)
(***************************************************************************)
\* the keys a caller that fills the page in ascending order inserts
AscendingKeys(p) ==
    LET live == UserKeys(p)
    IN  IF live = {} THEN Keys
        ELSE {(CHOOSE k \in live : \A j \in live : j <= k) + 1} \cap Keys

InsertAscending ==
    /\ ~last.fatal /\ ~call.made
    /\ done.inserts < workload.inserts
    /\ \E key \in AscendingKeys(page) :
          LET r == page_cur_insert_rec_low(page, CursorFor(page, key), key, NewMtr)
          IN  page' = r.page /\ last' = Done("page_cur_insert_rec_low", r)
    /\ done' = [done EXCEPT !.inserts = @ + 1]
    /\ UNCHANGED <<index, call, workload>>

NextFill ==
    \/ PageCreateEmpty
    \/ Insert
    \/ InsertAscending

SpecFill == Init /\ [][NextFill]_vars

(***************************************************************************)
(* The record codec of rem0rec.cc, compact format, ordinary records.       *)
(* A record is its header, hdr[d] being the byte at rec - d, and its data  *)
(* area, a sequence of pieces: piece [val, from, to] holds the bytes       *)
(* from .. to - 1 of the value val of the tuple.                           *)
(***************************************************************************)
\* the largest length the two-byte form encodes: ut_ad(len < 16384)
MaxTwoByteLen == 16383
REC_ANTELOPE_MAX_INDEX_COL_LEN == 768
BTR_EXTERN_FIELD_REF_SIZE == 20
REC_STATUS_ORDINARY == 0

UT_BITS_IN_BYTES(b) == (b + 7) \div 8
Bit(x, i) == (x \div (2 ^ i)) % 2

RECURSIVE BitOrFrom(_, _, _)
BitOrFrom(a, b, i) ==
    IF i > 15 THEN 0
    ELSE (IF Bit(a, i) = 1 \/ Bit(b, i) = 1 THEN 2 ^ i ELSE 0)
         + BitOrFrom(a, b, i + 1)

\* a | b and a & b on values of at most 16 bits, (byte) x
BitOr(a, b) == BitOrFrom(a, b, 0)

RECURSIVE BitAndFrom(_, _, _)
BitAndFrom(a, b, i) ==
    IF i > 15 THEN 0
    ELSE (IF Bit(a, i) = 1 /\ Bit(b, i) = 1 THEN 2 ^ i ELSE 0)
         + BitAndFrom(a, b, i + 1)

BitAnd(a, b) == BitAndFrom(a, b, 0)
ToByte(x) == x % 256

\* a column is big when its maximum length needs more than one byte
DATA_BIG_LEN_MTYPE(len) == len > 255
DATA_BIG_COL(col) == DATA_BIG_LEN_MTYPE(col.len)

\* the column of a tuple's field has the type of the field
dfield_get_type(field) == field.type
dfield_get_len(field) == field.len
dfield_is_null(field) == field.null
dfield_is_ext(field) == field.ext
dict_index_get_n_fields(idx) == Len(idx.fields)

\* *p = b for the header byte at rec - d; the header grows downwards
SetHeader(hdr, d, b) ==
    IF d <= Len(hdr) THEN [hdr EXCEPT ![d] = b]
    ELSE hdr \o [k \in 1..(d - Len(hdr)) |-> IF k = d - Len(hdr) THEN b ELSE 0]

\* *p for the header byte at rec - d; the buffer below the record is zero
GetHeader(hdr, d) == IF d \in DOMAIN hdr THEN hdr[d] ELSE 0

\* memcpy(end, dfield_get_data(field), len)
CopyData(data, val, len) ==
    IF len = 0 THEN data
    ELSE Append(data, [val |-> val, from |-> 0, to |-> len])

\* the length bytes of one field, the two-byte form without the flag of an
\* externally stored field
rec_convert_lens_inline(st, ifield, field) ==
    LET len == dfield_get_len(field)
    IN  IF ifield.fixed_len # 0 THEN st
        ELSE IF len < 128 \/ ~DATA_BIG_LEN_MTYPE(dfield_get_type(field).len)
        THEN [st EXCEPT !.hdr = SetHeader(@, st.lens, ToByte(len)),
                        !.lens = @ + 1]
        ELSE [st EXCEPT
                 !.hdr = SetHeader(SetHeader(@, st.lens,
                                       ToByte(BitOr(ToByte(len \div 256), 128))),
                                   st.lens + 1, ToByte(len)),
                 !.lens = @ + 2]

\* the length bytes of one field: *lens-- = ...
rec_convert_lens(st, ifield, field) ==
    LET len == dfield_get_len(field)
    IN  IF ifield.fixed_len # 0 THEN st
        ELSE IF dfield_is_ext(field)
        THEN [st EXCEPT
                 !.hdr = SetHeader(SetHeader(@, st.lens,
                                       ToByte(BitOr(ToByte(len \div 256), 192))),
                                   st.lens + 1, ToByte(len)),
                 !.lens = @ + 2]
        ELSE IF len < 128 \/ ~DATA_BIG_LEN_MTYPE(dfield_get_type(field).len)
        THEN [st EXCEPT !.hdr = SetHeader(@, st.lens, ToByte(len)),
                        !.lens = @ + 1]
        ELSE [st EXCEPT
                 !.hdr = SetHeader(SetHeader(@, st.lens,
                                       ToByte(BitOr(ToByte(len \div 256), 128))),
                                   st.lens + 1, ToByte(len)),
                 !.lens = @ + 2]

\* a field that is not null: its length bytes and its data
rec_convert_stored(st, ifield, field, i) ==
    [rec_convert_lens(st, ifield, field)
        EXCEPT !.data = CopyData(@, i, dfield_get_len(field))]

\* the null flag of a nullable field, after the step to the next bitmap byte
rec_convert_nullable(st, ifield, field, i) ==
    IF dfield_is_null(field)
    THEN [st EXCEPT !.hdr = SetHeader(@, st.nulls,
                                BitOr(GetHeader(@, st.nulls), st.null_mask)),
                    !.null_mask = @ * 2]
    ELSE rec_convert_stored([st EXCEPT !.null_mask = @ * 2], ifield, field, i)

\* one round of the loop over the fields
rec_convert_field(st, ifield, field, i) ==
    IF ~dfield_get_type(field).not_null
    THEN rec_convert_nullable(
             IF ToByte(st.null_mask) = 0
             THEN [st EXCEPT !.nulls = @ + 1, !.null_mask = 1] ELSE st,
             ifield, field, i)
    ELSE rec_convert_stored(st, ifield, field, i)

RECURSIVE rec_convert_fields(_, _, _, _)
rec_convert_fields(st, idx, fields, i) ==
    IF i > Len(fields) THEN st
    ELSE rec_convert_fields(
             rec_convert_field(st, idx.fields[i], fields[i], i),
             idx, fields, i + 1)

\* the record at rec: the bitmap is cleared, then the fields are written
rec_convert_dtuple_to_rec_comp(idx, fields, n_fields) ==
    LET n_null == idx.n_nullable
        nulls  == REC_N_NEW_EXTRA_BYTES + 1
        lens   == nulls + UT_BITS_IN_BYTES(n_null)
    IN  rec_convert_fields(
            [hdr       |-> [d \in 1..(lens - 1) |-> 0],
             data      |-> << >>,
             nulls     |-> nulls,
             null_mask |-> 1,
             lens      |-> lens],
            idx, SubSeq(fields, 1, n_fields), 1)

\* the size of one field, an externally stored field counted as a field
\* stored in the record
rec_get_converted_size_field_inline(sz, ifield, field) ==
    LET len == dfield_get_len(field)
    IN  IF dfield_is_null(field) THEN sz
        ELSE [extra_size |->
                 sz.extra_size +
                 (IF ifield.fixed_len # 0 THEN 0
                  ELSE IF len < 128 \/ ~DATA_BIG_COL(ifield.col) THEN 1
                  ELSE 2),
              data_size |-> sz.data_size + len]

\* the size of the header and of the data of one field
rec_get_converted_size_field(sz, ifield, field) ==
    LET len == dfield_get_len(field)
    IN  IF dfield_is_null(field) THEN sz
        ELSE [extra_size |->
                 sz.extra_size +
                 (IF ifield.fixed_len # 0 THEN 0
                  ELSE IF dfield_is_ext(field) THEN 2
                  ELSE IF len < 128 \/ ~DATA_BIG_COL(ifield.col) THEN 1
                  ELSE 2),
              data_size |-> sz.data_size + len]

RECURSIVE rec_get_converted_size_fields(_, _, _, _)
rec_get_converted_size_fields(sz, idx, fields, i) ==
    IF i > Len(fields) THEN sz
    ELSE rec_get_converted_size_fields(
             rec_get_converted_size_field(sz, idx.fields[i], fields[i]),
             idx, fields, i + 1)

rec_get_converted_size_comp_prefix_low(idx, fields, n_fields) ==
    LET n_null == IF n_fields > 0 THEN idx.n_nullable ELSE 0
        sz == rec_get_converted_size_fields(
                  [extra_size |-> REC_N_NEW_EXTRA_BYTES
                                  + UT_BITS_IN_BYTES(n_null),
                   data_size  |-> 0],
                  idx, SubSeq(fields, 1, n_fields), 1)
    IN  [extra |-> sz.extra_size, size |-> sz.extra_size + sz.data_size]

\* an ordinary record adds nothing to the size of its fields
rec_get_converted_size_comp(idx, status, fields, n_fields) ==
    rec_get_converted_size_comp_prefix_low(idx, fields, n_fields)

\* the record in the buffer: its origin is extra_size bytes above the start
\* of the buffer, and the header is written downwards from the origin
rec_convert_dtuple_to_rec_new(idx, dtuple) ==
    LET size == rec_get_converted_size_comp(idx, REC_STATUS_ORDINARY,
                                            dtuple, Len(dtuple))
        rec  == rec_convert_dtuple_to_rec_comp(idx, dtuple, Len(dtuple))
    IN  [origin |-> size.extra, hdr |-> rec.hdr, data |-> rec.data,
         size |-> size.size]

(***************************************************************************)
(* The old-style record.  Its header keeps, below the six fixed bytes, the *)
(* end of every field in one byte or in two, with the flag of a NULL value *)
(* in the top bit and, in the two-byte form, the flag of an externally     *)
(* stored value in the next bit.                                           *)
(***************************************************************************)
REC_1BYTE_OFFS_LIMIT == 127
REC_1BYTE_SQL_NULL_MASK == 128
REC_2BYTE_SQL_NULL_MASK == 32768
REC_2BYTE_EXTERN_MASK == 16384

\* the bytes that a NULL value takes in an old-style record: the fixed size
\* of the type, which the index keeps as the fixed length of the field
dtype_get_sql_null_size(idx, i) == idx.fields[i].fixed_len

RECURSIVE dtuple_get_data_size(_, _, _)
dtuple_get_data_size(idx, dtuple, i) ==
    IF i > Len(dtuple) THEN 0
    ELSE (IF dfield_is_null(dtuple[i]) THEN dtype_get_sql_null_size(idx, i)
          ELSE dfield_get_len(dtuple[i]))
         + dtuple_get_data_size(idx, dtuple, i + 1)

RECURSIVE dtuple_get_n_ext(_, _)
dtuple_get_n_ext(dtuple, i) ==
    IF i > Len(dtuple) THEN 0
    ELSE (IF dfield_is_ext(dtuple[i]) THEN 1 ELSE 0)
         + dtuple_get_n_ext(dtuple, i + 1)

rec_get_converted_extra_size(data_size, n_fields, n_ext) ==
    IF n_ext = 0 /\ data_size <= REC_1BYTE_OFFS_LIMIT
    THEN REC_N_OLD_EXTRA_BYTES + n_fields
    ELSE REC_N_OLD_EXTRA_BYTES + 2 * n_fields

\* the number of fields and the flag of the one-byte form in the header:
\* the flag is the lowest bit of the byte at rec - 3, the number of fields
\* the ten bits above it
rec_set_n_fields_old(hdr, n_fields) ==
    SetHeader(SetHeader(hdr, 4,
                        (GetHeader(hdr, 4) \div 8) * 8
                        + n_fields \div 128),
              3,
              (n_fields % 128) * 2 + (GetHeader(hdr, 3) % 2))

rec_set_1byte_offs_flag(hdr, flag) ==
    SetHeader(hdr, 3,
              (GetHeader(hdr, 3) \div 2) * 2
              + (IF flag THEN 1 ELSE 0))

rec_get_n_fields_old(rec) ==
    (GetHeader(rec.hdr, 4) % 8) * 128
    + GetHeader(rec.hdr, 3) \div 2

rec_get_1byte_offs_flag(rec) == (GetHeader(rec.hdr, 3) % 2) = 1

\* the end of field n, n counted from 0, with its flags
rec_1_get_field_end_info(rec, n) ==
    GetHeader(rec.hdr, REC_N_OLD_EXTRA_BYTES + n + 1)

rec_2_get_field_end_info(rec, n) ==
    GetHeader(rec.hdr, REC_N_OLD_EXTRA_BYTES + 2 * n + 2) * 256
    + GetHeader(rec.hdr, REC_N_OLD_EXTRA_BYTES + 2 * n + 1)

rec_1_set_field_end_info(hdr, n, info) ==
    SetHeader(hdr, REC_N_OLD_EXTRA_BYTES + n + 1, ToByte(info))

rec_2_set_field_end_info(hdr, n, info) ==
    SetHeader(SetHeader(hdr, REC_N_OLD_EXTRA_BYTES + 2 * n + 2,
                        ToByte(info \div 256)),
              REC_N_OLD_EXTRA_BYTES + 2 * n + 1, ToByte(info))

\* one round of the loop over the fields, a NULL value written with no bytes
rec_convert_old_field_empty(st, short, idx, field, i) ==
    LET len  == IF dfield_is_null(field) THEN 0 ELSE dfield_get_len(field)
        end  == st.end_offset + len
        ored == IF dfield_is_null(field)
                THEN BitOr(end, IF short THEN REC_1BYTE_SQL_NULL_MASK
                                ELSE REC_2BYTE_SQL_NULL_MASK)
                ELSE IF ~short /\ dfield_is_ext(field)
                THEN BitOr(end, REC_2BYTE_EXTERN_MASK)
                ELSE end
    IN  [hdr |-> IF short THEN rec_1_set_field_end_info(st.hdr, i - 1, ored)
                 ELSE rec_2_set_field_end_info(st.hdr, i - 1, ored),
         data |-> CopyData(st.data, IF dfield_is_null(field) THEN 0 ELSE i, len),
         end_offset |-> end]

\* one round of the loop over the fields: a NULL value takes the bytes of
\* its type, filled with zeros
rec_convert_old_field(st, short, idx, field, i) ==
    LET len  == IF dfield_is_null(field) THEN dtype_get_sql_null_size(idx, i)
                ELSE dfield_get_len(field)
        end  == st.end_offset + len
        ored == IF dfield_is_null(field)
                THEN BitOr(end, IF short THEN REC_1BYTE_SQL_NULL_MASK
                                ELSE REC_2BYTE_SQL_NULL_MASK)
                ELSE IF ~short /\ dfield_is_ext(field)
                THEN BitOr(end, REC_2BYTE_EXTERN_MASK)
                ELSE end
    IN  [hdr |-> IF short THEN rec_1_set_field_end_info(st.hdr, i - 1, ored)
                 ELSE rec_2_set_field_end_info(st.hdr, i - 1, ored),
         data |-> CopyData(st.data, IF dfield_is_null(field) THEN 0 ELSE i, len),
         end_offset |-> end]

RECURSIVE rec_convert_old_fields(_, _, _, _, _)
rec_convert_old_fields(st, short, idx, dtuple, i) ==
    IF i > Len(dtuple) THEN st
    ELSE rec_convert_old_fields(
             rec_convert_old_field(st, short, idx, dtuple[i], i),
             short, idx, dtuple, i + 1)

\* the old-style record in the buffer
rec_convert_dtuple_to_rec_old(idx, dtuple, n_ext) ==
    LET n_fields  == Len(dtuple)
        data_size == dtuple_get_data_size(idx, dtuple, 1)
        extra     == rec_get_converted_extra_size(data_size, n_fields, n_ext)
        short     == n_ext = 0 /\ data_size <= REC_1BYTE_OFFS_LIMIT
        st == rec_convert_old_fields(
                  [hdr |-> rec_set_1byte_offs_flag(
                               rec_set_n_fields_old(
                                   [d \in 1..REC_N_OLD_EXTRA_BYTES |-> 0],
                                   n_fields),
                               short),
                   data |-> << >>,
                   end_offset |-> 0],
                  short, idx, dtuple, 1)
    IN  [origin |-> extra, hdr |-> st.hdr, data |-> st.data,
         size |-> extra + data_size]

rec_convert_dtuple_to_rec(idx, dtuple) ==
    IF idx.comp THEN rec_convert_dtuple_to_rec_new(idx, dtuple)
    ELSE rec_convert_dtuple_to_rec_old(idx, dtuple, dtuple_get_n_ext(dtuple, 1))

\* an element of the offsets array: the offset and its flags
Offs(offs, flags) == [offs |-> offs, flags |-> flags]

\* the length bytes of a stored field, read in the two-byte form whenever
\* the top bit of the first byte is set
rec_init_offsets_lens_any(st, rec, ifield) ==
    LET len == GetHeader(rec.hdr, st.lens)
        two == BitOr(len * 256, GetHeader(rec.hdr, st.lens + 1))
    IN  IF ifield.fixed_len # 0
        THEN [st EXCEPT !.offs = @ + ifield.fixed_len,
                        !.ends = Append(@, Offs(st.offs + ifield.fixed_len, {}))]
        ELSE IF BitAnd(len, 128) # 0
        THEN [st EXCEPT
                 !.lens = @ + 2,
                 !.offs = @ + BitAnd(two, 16383),
                 !.ends = Append(@, Offs(st.offs + BitAnd(two, 16383), {}))]
        ELSE [st EXCEPT !.lens = @ + 1,
                        !.offs = @ + len,
                        !.ends = Append(@, Offs(st.offs + len, {}))]

\* the length bytes of a field that is stored: len = *lens--
rec_init_offsets_lens(st, rec, ifield) ==
    LET len == GetHeader(rec.hdr, st.lens)
        two == BitOr(len * 256, GetHeader(rec.hdr, st.lens + 1))
    IN  IF ifield.fixed_len # 0
        THEN [st EXCEPT !.offs = @ + ifield.fixed_len,
                        !.ends = Append(@, Offs(st.offs + ifield.fixed_len, {}))]
        ELSE IF DATA_BIG_COL(ifield.col) /\ BitAnd(len, 128) # 0
        THEN [st EXCEPT
                 !.lens = @ + 2,
                 !.offs = @ + BitAnd(two, 16383),
                 !.any_ext = IF BitAnd(two, 16384) # 0
                             THEN {"REC_OFFS_EXTERNAL"} ELSE @,
                 !.ends = Append(@, Offs(st.offs + BitAnd(two, 16383),
                                         IF BitAnd(two, 16384) # 0
                                         THEN {"REC_OFFS_EXTERNAL"} ELSE {}))]
        ELSE [st EXCEPT !.lens = @ + 1,
                        !.offs = @ + len,
                        !.ends = Append(@, Offs(st.offs + len, {}))]

\* the null flag of a nullable field, after the step to the next bitmap byte
rec_init_offsets_nullable(st, rec, ifield) ==
    IF BitAnd(GetHeader(rec.hdr, st.nulls), st.null_mask) # 0
    THEN [st EXCEPT !.null_mask = @ * 2,
                    !.ends = Append(@, Offs(st.offs, {"REC_OFFS_SQL_NULL"}))]
    ELSE rec_init_offsets_lens([st EXCEPT !.null_mask = @ * 2], rec, ifield)

rec_init_offsets_field(st, rec, ifield) ==
    IF ~ifield.col.not_null
    THEN rec_init_offsets_nullable(
             IF ToByte(st.null_mask) = 0
             THEN [st EXCEPT !.nulls = @ + 1, !.null_mask = 1] ELSE st,
             rec, ifield)
    ELSE rec_init_offsets_lens(st, rec, ifield)

RECURSIVE rec_init_offsets_fields(_, _, _, _, _)
rec_init_offsets_fields(st, rec, idx, i, n) ==
    IF i > n THEN st
    ELSE rec_init_offsets_fields(
             rec_init_offsets_field(st, rec, idx.fields[i]),
             rec, idx, i + 1, n)

\* the offsets of the fields of a record: base[0] is the size of the header
\* with the flags of the record, base[i] the end of field i with its flags
rec_init_offsets_comp_ordinary(rec, idx, n) ==
    LET nulls == REC_N_NEW_EXTRA_BYTES + 1
        st == rec_init_offsets_fields(
                  [nulls     |-> nulls,
                   null_mask |-> 1,
                   lens      |-> nulls + UT_BITS_IN_BYTES(idx.n_nullable),
                   offs      |-> 0,
                   any_ext   |-> {},
                   ends      |-> << >>],
                  rec, idx, 1, n)
    IN  [base |-> Offs(st.lens - 1, {"REC_OFFS_COMPACT"} \cup st.any_ext),
         ends |-> st.ends]

\* the offsets of an old-style record: the ends of the fields are read from
\* the header, the flags moved to the flags of the offsets
rec_init_offsets_old_1byte(rec, i) ==
    LET offs == rec_1_get_field_end_info(rec, i - 1)
    IN  IF BitAnd(offs, REC_1BYTE_SQL_NULL_MASK) # 0
        THEN Offs(offs - REC_1BYTE_SQL_NULL_MASK, {"REC_OFFS_SQL_NULL"})
        ELSE Offs(offs, {})

rec_init_offsets_old_2byte(rec, i) ==
    LET offs == rec_2_get_field_end_info(rec, i - 1)
    IN  Offs(offs % REC_2BYTE_EXTERN_MASK,
             (IF BitAnd(offs, REC_2BYTE_SQL_NULL_MASK) # 0
              THEN {"REC_OFFS_SQL_NULL"} ELSE {})
             \cup (IF BitAnd(offs, REC_2BYTE_EXTERN_MASK) # 0
                   THEN {"REC_OFFS_EXTERNAL"} ELSE {}))

rec_init_offsets_old(rec, n) ==
    IF rec_get_1byte_offs_flag(rec)
    THEN [base |-> Offs(REC_N_OLD_EXTRA_BYTES + n, {}),
          ends |-> [i \in 1..n |-> rec_init_offsets_old_1byte(rec, i)]]
    ELSE LET ends == [i \in 1..n |-> rec_init_offsets_old_2byte(rec, i)]
         IN  [base |-> Offs(REC_N_OLD_EXTRA_BYTES + 2 * n,
                            IF \E i \in 1..n :
                                  "REC_OFFS_EXTERNAL" \in ends[i].flags
                            THEN {"REC_OFFS_EXTERNAL"} ELSE {}),
              ends |-> ends]

rec_init_offsets(rec, idx, n) ==
    IF idx.comp THEN rec_init_offsets_comp_ordinary(rec, idx, n)
    ELSE rec_init_offsets_old(rec, n)

rec_get_offsets(rec, idx) ==
    rec_init_offsets(rec, idx,
                     IF idx.comp THEN dict_index_get_n_fields(idx)
                     ELSE rec_get_n_fields_old(rec))

\* the length bytes of a stored field, as rec_get_n_extern_new reads them
rec_get_n_extern_lens(st, rec, ifield) ==
    LET len == GetHeader(rec.hdr, st.lens)
    IN  IF ifield.fixed_len # 0 THEN st
        ELSE IF DATA_BIG_COL(ifield.col) /\ BitAnd(len, 128) # 0
        THEN [st EXCEPT !.lens = @ + 2,
                        !.n_extern = IF BitAnd(len, 64) # 0 THEN @ + 1 ELSE @]
        ELSE [st EXCEPT !.lens = @ + 1]

rec_get_n_extern_nullable(st, rec, ifield) ==
    IF BitAnd(GetHeader(rec.hdr, st.nulls), st.null_mask) # 0
    THEN [st EXCEPT !.null_mask = @ * 2]
    ELSE rec_get_n_extern_lens([st EXCEPT !.null_mask = @ * 2], rec, ifield)

rec_get_n_extern_field(st, rec, ifield) ==
    IF ~ifield.col.not_null
    THEN rec_get_n_extern_nullable(
             IF ToByte(st.null_mask) = 0
             THEN [st EXCEPT !.nulls = @ + 1, !.null_mask = 1] ELSE st,
             rec, ifield)
    ELSE rec_get_n_extern_lens(st, rec, ifield)

\* do { field i } while (++i < n): field i is read, then n is tested
RECURSIVE rec_get_n_extern_fields(_, _, _, _, _)
rec_get_n_extern_fields(st, rec, idx, i, n) ==
    IF i + 1 < n
    THEN rec_get_n_extern_fields(
             rec_get_n_extern_field(st, rec, idx.fields[i + 1]),
             rec, idx, i + 1, n)
    ELSE rec_get_n_extern_field(st, rec, idx.fields[i + 1])

\* how many of the first n columns of the record are stored externally
rec_get_n_extern_new(rec, idx, n) ==
    rec_get_n_extern_fields(
        [nulls     |-> REC_N_NEW_EXTRA_BYTES + 1,
         null_mask |-> 1,
         lens      |-> REC_N_NEW_EXTRA_BYTES + 1 + UT_BITS_IN_BYTES(idx.n_nullable),
         n_extern  |-> 0],
        rec, idx, 0,
        IF n = ULINT_UNDEFINED THEN dict_index_get_n_fields(idx) ELSE n).n_extern

\* the accessors of the offsets array
rec_offs_extra_size(offsets) == offsets.base.offs
rec_offs_any_extern(offsets) == "REC_OFFS_EXTERNAL" \in offsets.base.flags
rec_offs_n_fields(offsets) == Len(offsets.ends)
rec_offs_nth_sql_null(offsets, n) ==
    "REC_OFFS_SQL_NULL" \in offsets.ends[n].flags
rec_offs_nth_extern(offsets, n) ==
    "REC_OFFS_EXTERNAL" \in offsets.ends[n].flags
rec_offs_data_size(offsets) ==
    IF offsets.ends = << >> THEN 0 ELSE offsets.ends[Len(offsets.ends)].offs
rec_get_nth_field_offs(offsets, n) ==
    IF n = 1 THEN 0 ELSE offsets.ends[n - 1].offs
rec_offs_nth_size(offsets, n) ==
    offsets.ends[n].offs - rec_get_nth_field_offs(offsets, n)

\* the bytes a .. b - 1 of the data area
RECURSIVE DataFrom(_, _, _, _, _)
DataFrom(data, i, at, a, b) ==
    IF i > Len(data) THEN << >>
    ELSE LET n  == data[i].to - data[i].from
             lo == Max(a, at)
             hi == Min(b, at + n)
         IN  (IF lo < hi
              THEN << [val  |-> data[i].val,
                       from |-> data[i].from + (lo - at),
                       to   |-> data[i].from + (hi - at)] >>
              ELSE << >>)
             \o DataFrom(data, i + 1, at + n, a, b)

\* the value of field n of the record
rec_get_nth_field(rec, offsets, n) ==
    DataFrom(rec.data, 1, 0, rec_get_nth_field_offs(offsets, n),
             offsets.ends[n].offs)

\* the start of field n of an old-style record, n counted from 0
rec_get_field_start_offs(rec, n) ==
    IF n = 0 THEN 0
    ELSE IF rec_get_1byte_offs_flag(rec)
    THEN rec_1_get_field_end_info(rec, n - 1) % REC_1BYTE_SQL_NULL_MASK
    ELSE rec_2_get_field_end_info(rec, n - 1) % REC_2BYTE_EXTERN_MASK

rec_get_nth_field_size(rec, n) ==
    rec_get_field_start_offs(rec, n + 1) - rec_get_field_start_offs(rec, n)

\* len zero bytes written at the offset
data_write_sql_null(data, offset, len) ==
    DataFrom(data, 1, 0, 0, offset)
    \o CopyData(<< >>, 0, len)
    \o DataFrom(data, 1, 0, offset + len, REC_2BYTE_SQL_NULL_MASK)

rec_set_nth_field_null_bit(rec, i, val) ==
    IF rec_get_1byte_offs_flag(rec)
    THEN LET info == rec_1_get_field_end_info(rec, i)
         IN  [rec EXCEPT !.hdr = rec_1_set_field_end_info(@, i,
                 IF val THEN BitOr(info, REC_1BYTE_SQL_NULL_MASK)
                 ELSE info - BitAnd(info, REC_1BYTE_SQL_NULL_MASK))]
    ELSE LET info == rec_2_get_field_end_info(rec, i)
         IN  [rec EXCEPT !.hdr = rec_2_set_field_end_info(@, i,
                 IF val THEN BitOr(info, REC_2BYTE_SQL_NULL_MASK)
                 ELSE info - BitAnd(info, REC_2BYTE_SQL_NULL_MASK))]

\* a field of an old-style record is set to NULL: its bytes are cleared and
\* stay in the record
rec_set_nth_field_sql_null(rec, n) ==
    rec_set_nth_field_null_bit(
        [rec EXCEPT !.data = data_write_sql_null(
                                 @, rec_get_field_start_offs(rec, n),
                                 rec_get_nth_field_size(rec, n))],
        n, TRUE)

(***************************************************************************)
(* A sixth specification: a tuple that conforms to the descriptor of its   *)
(* index is converted to a record, and the offsets of the record are       *)
(* computed.  The tuples of an index of one field take every length of     *)
(* the column; the tuples of the longer indexes take the lengths at the    *)
(* edges of the one-byte and the two-byte form.                            *)
(***************************************************************************)
MaxFields == 3
FixedLen == 4
NullableRun == 9

\* the fields of an index: fixed or variable length, nullable or not,
\* of a column of at most 255 bytes or of a big column
RecFields ==
    { [fixed_len |-> FixedLen, col |-> [len |-> FixedLen, not_null |-> nn]] :
          nn \in BOOLEAN }
    \cup { [fixed_len |-> 0, col |-> [len |-> l, not_null |-> nn]] :
          l \in {255, MaxTwoByteLen}, nn \in BOOLEAN }

RECURSIVE CountNullable(_, _)
CountNullable(fields, i) ==
    IF i > Len(fields) THEN 0
    ELSE (IF fields[i].col.not_null THEN 0 ELSE 1) + CountNullable(fields, i + 1)

RecIndex(fields) ==
    [comp |-> TRUE, sec |-> FALSE, temp |-> FALSE, spatial |-> FALSE,
     fields |-> fields, n_nullable |-> CountNullable(fields, 1)]

\* an integer, a short string, a nullable column and a big column
RowFields ==
    << [fixed_len |-> FixedLen, col |-> [len |-> FixedLen, not_null |-> TRUE]],
       [fixed_len |-> 0, col |-> [len |-> 255, not_null |-> FALSE]],
       [fixed_len |-> FixedLen, col |-> [len |-> FixedLen, not_null |-> FALSE]],
       [fixed_len |-> 0, col |-> [len |-> MaxTwoByteLen, not_null |-> FALSE]] >>

RecIndexes ==
    { RecIndex(f) : f \in UNION { [1..n -> RecFields] : n \in 1..MaxFields } }
    \cup { RecIndex([i \in 1..NullableRun |->
                       [fixed_len |-> FixedLen,
                        col |-> [len |-> FixedLen, not_null |-> FALSE]]]),
           RecIndex(RowFields) }

\* the lengths of the values of a column
SmallLens == {0, 1, 127, 128, 255}
BigLens == {0, 127, 128, 255, 256, MaxTwoByteLen}
ExternLens == {BTR_EXTERN_FIELD_REF_SIZE, 127, 128,
               REC_ANTELOPE_MAX_INDEX_COL_LEN + BTR_EXTERN_FIELD_REF_SIZE}

LensOf(ifield, every) ==
    IF ifield.fixed_len # 0 THEN {ifield.fixed_len}
    ELSE IF every THEN 0..ifield.col.len
    ELSE IF DATA_BIG_COL(ifield.col) THEN BigLens
    ELSE SmallLens

\* the fields of a tuple that conform to a field of the index: only a
\* nullable column is null, only a big variable-length column is external
FieldsOf(ifield, every) ==
    { [len |-> l, null |-> FALSE, ext |-> FALSE, type |-> ifield.col] :
          l \in LensOf(ifield, every) }
    \cup { [len |-> 0, null |-> TRUE, ext |-> FALSE, type |-> ifield.col] :
          l \in IF ifield.col.not_null THEN {} ELSE {0} }
    \cup { [len |-> l, null |-> FALSE, ext |-> TRUE, type |-> ifield.col] :
          l \in IF ifield.fixed_len = 0 /\ DATA_BIG_COL(ifield.col)
                THEN ExternLens ELSE {} }

RECURSIVE TuplesFrom(_, _, _)
TuplesFrom(idx, i, n) ==
    IF i > n THEN { << >> }
    ELSE { << f >> \o t : f \in FieldsOf(idx.fields[i], n = 1),
                          t \in TuplesFrom(idx, i + 1, n) }

\* the tuples of an index; the data of an old-style record stays below the
\* flags of the two-byte ends
Tuples(idx) ==
    { t \in TuplesFrom(idx, 1, dict_index_get_n_fields(idx)) :
          idx.comp \/ dtuple_get_data_size(idx, t, 1) <= MaxTwoByteLen }

InitRec ==
    /\ index \in RecIndexes
    /\ workload = [inserts |-> 0, deletes |-> 0, copies |-> 0]
    /\ page = page_create_low(FreshFrame, TRUE)
    /\ last = [op |-> "none", ret |-> 0, fatal |-> FALSE, log |-> << >>]
    /\ call = NoCall
    /\ done = NoneDone

Convert ==
    /\ ~call.made
    /\ \E dtuple \in Tuples(index) :
          \E rec \in {rec_convert_dtuple_to_rec(index, dtuple)} :
             /\ call' = [made |-> TRUE, fn |-> "rec_convert_dtuple_to_rec",
                         dtuple |-> dtuple, rec |-> rec]
             /\ last' = [op |-> "rec_convert_dtuple_to_rec", ret |-> rec.origin,
                         fatal |-> FALSE, log |-> << >>]
    /\ UNCHANGED <<page, index, workload, done>>

GetOffsets ==
    /\ call.made
    /\ last.op \in {"rec_convert_dtuple_to_rec", "rec_set_nth_field_sql_null"}
    /\ last' = [op |-> "rec_get_offsets",
                ret |-> rec_get_offsets(call.rec, index),
                fatal |-> FALSE, log |-> << >>]
    /\ UNCHANGED <<page, index, call, workload, done>>

\* the count is taken on the records whose fields have the lengths at the
\* edges of the two forms
GetNExtern ==
    /\ call.made /\ last.op = "rec_convert_dtuple_to_rec"
    /\ \A i \in DOMAIN call.dtuple :
          call.dtuple[i].len \in SmallLens \cup BigLens \cup ExternLens
                                 \cup {FixedLen}
    /\ \E n \in 0..dict_index_get_n_fields(index) :
          last' = [op |-> "rec_get_n_extern_new", n |-> n,
                   ret |-> rec_get_n_extern_new(call.rec, index, n),
                   fatal |-> FALSE, log |-> << >>]
    /\ UNCHANGED <<page, index, call, workload, done>>

NextRec ==
    \/ Convert
    \/ GetOffsets
    \/ GetNExtern

SpecRec == InitRec /\ [][NextRec]_vars

(***************************************************************************)
(* The records of both formats: the tuples of the indexes of one field and *)
(* of two are converted in the old style and in the new, a field of an     *)
(* old-style record is set to NULL in place, and the offsets are computed. *)
(***************************************************************************)
MaxFormatFields == 2

FormatIndexes ==
    { [RecIndex(f) EXCEPT !.comp = c] :
          f \in UNION { [1..n -> RecFields] : n \in 1..MaxFormatFields },
          c \in BOOLEAN }

InitFormats ==
    /\ index \in FormatIndexes
    /\ workload = [inserts |-> 0, deletes |-> 0, copies |-> 0]
    /\ page = page_create_low(FreshFrame, TRUE)
    /\ last = [op |-> "none", ret |-> 0, fatal |-> FALSE, log |-> << >>]
    /\ call = NoCall
    /\ done = NoneDone

SetNull ==
    /\ call.made /\ last.op = "rec_convert_dtuple_to_rec" /\ ~index.comp
    /\ \E n \in 1..Len(call.dtuple) :
          /\ ~index.fields[n].col.not_null
          /\ ~dfield_is_null(call.dtuple[n])
          /\ call' = [made |-> TRUE, fn |-> "rec_set_nth_field_sql_null",
                      dtuple |-> call.dtuple, nth |-> n,
                      rec |-> rec_set_nth_field_sql_null(call.rec, n - 1)]
          /\ last' = [op |-> "rec_set_nth_field_sql_null", ret |-> 0,
                      fatal |-> FALSE, log |-> << >>]
    /\ UNCHANGED <<page, index, workload, done>>

NextFormats ==
    \/ Convert
    \/ SetNull
    \/ GetOffsets

SpecFormats == InitFormats /\ [][NextFormats]_vars

(***************************************************************************)
(* The validators of a page.  The walk of the record list keeps the        *)
(* record, the number of steps taken, the number of records met since the  *)
(* last owner, and the number of the slot that the next owner must have.   *)
(***************************************************************************)
FIL_PAGE_DATA == 38
page_is_empty(p) == page_get_n_recs(p) = 0
trx_sys_get_max_trx_id == MaxTrxId

StartWalk(p) ==
    [ok |-> TRUE, at_end |-> FALSE, rec |-> page_get_infimum_rec(p), count |-> 0,
     own_count |-> 1, slot_no |-> 0, old_rec |-> 0, data_size |-> 0]

\* the owner of a slot: its count and its slot are checked, the walk goes
\* on to the next slot
WalkOwner(p, w) ==
    IF p.rec[w.rec].n_owned = 0 THEN w
    ELSE IF p.rec[w.rec].n_owned # w.own_count
            \/ page_dir_slot_get_rec(p, w.slot_no) # w.rec
    THEN [w EXCEPT !.ok = FALSE]
    ELSE [w EXCEPT !.own_count = 0,
                   !.slot_no = IF page_rec_is_supremum(p, w.rec) THEN @ ELSE @ + 1]

\* a step to the successor that does not look at the count of the records
SimpleWalkNext_uncounted(p, w) ==
    IF ~w.ok THEN w
    ELSE IF page_rec_is_supremum(p, w.rec) THEN [w EXCEPT !.at_end = TRUE]
    ELSE IF rec_get_next_offs(p, w.rec) < FIL_PAGE_DATA
            \/ rec_get_next_offs(p, w.rec) >= UNIV_PAGE_SIZE
    THEN [w EXCEPT !.ok = FALSE]
    ELSE [w EXCEPT !.count = @ + 1,
                   !.rec = page_rec_get_next(p, w.rec),
                   !.own_count = @ + 1]

\* the step from a record that is not the supremum to its successor
SimpleWalkNext(p, w) ==
    IF ~w.ok THEN w
    ELSE IF page_rec_is_supremum(p, w.rec) THEN [w EXCEPT !.at_end = TRUE]
    ELSE IF rec_get_next_offs(p, w.rec) < FIL_PAGE_DATA
            \/ rec_get_next_offs(p, w.rec) >= UNIV_PAGE_SIZE
    THEN [w EXCEPT !.ok = FALSE]
    ELSE IF w.count + 1 > UNIV_PAGE_SIZE
    THEN [w EXCEPT !.ok = FALSE, !.count = @ + 1]
    ELSE [w EXCEPT !.count = @ + 1,
                   !.rec = page_rec_get_next(p, w.rec),
                   !.own_count = @ + 1]

\* one round of the loop over the record list
SimpleWalkRound(p, w) ==
    IF ~w.ok \/ w.at_end THEN w
    ELSE IF w.rec \notin DOMAIN p.rec \/ w.rec > p.heap_top
    THEN [w EXCEPT !.ok = FALSE]
    ELSE SimpleWalkNext(p, WalkOwner(p, w))

\* n rounds of the loop, or the rounds up to its end
RECURSIVE SimpleWalkRounds(_, _, _)
SimpleWalkRounds(p, w, n) ==
    IF ~w.ok \/ w.at_end \/ n = 0 THEN w
    ELSE IF n = 1 THEN SimpleWalkRound(p, w)
    ELSE LET half == SimpleWalkRounds(p, w, n \div 2)
         IN  SimpleWalkRounds(p, half, n - n \div 2)

\* the loop over the record list: the count of the records ends it after
\* UNIV_PAGE_SIZE + 1 rounds at the latest
page_simple_validate_walk(p, w) == SimpleWalkRounds(p, w, UNIV_PAGE_SIZE + 2)

\* one round of the loop over the free list: the record is counted
FreeWalkRound(p, f) ==
    IF ~f.ok \/ f.rec = 0 THEN f
    ELSE IF f.rec < FIL_PAGE_DATA \/ f.rec >= UNIV_PAGE_SIZE
            \/ f.rec \notin DOMAIN p.rec \/ f.rec > p.heap_top
    THEN [f EXCEPT !.ok = FALSE]
    ELSE IF f.count + 1 > UNIV_PAGE_SIZE
    THEN [f EXCEPT !.ok = FALSE, !.count = @ + 1]
    ELSE [f EXCEPT !.count = @ + 1, !.rec = page_rec_get_next(p, f.rec)]

RECURSIVE FreeWalkRounds(_, _, _)
FreeWalkRounds(p, f, n) ==
    IF ~f.ok \/ f.rec = 0 \/ n = 0 THEN f
    ELSE IF n = 1 THEN FreeWalkRound(p, f)
    ELSE LET half == FreeWalkRounds(p, f, n \div 2)
         IN  FreeWalkRounds(p, half, n - n \div 2)

\* the walk of the free list, which goes on with the count of the walk
\* of the record list
page_simple_validate_free(p, rec, count) ==
    LET f == FreeWalkRounds(p, [ok |-> TRUE, rec |-> rec, count |-> count],
                            UNIV_PAGE_SIZE + 2)
    IN  [ok |-> f.ok, count |-> f.count]

\* the checks after the walk of the record list, without the check of
\* PAGE_N_RECS
page_validate_walked_any(p, w) ==
    /\ w.ok
    /\ p.rec[w.rec].n_owned # 0
    /\ w.slot_no = page_dir_get_n_slots(p) - 1

\* the checks after the walk of the record list
page_validate_walked(p, w) ==
    /\ w.ok
    /\ p.rec[w.rec].n_owned # 0
    /\ w.slot_no = page_dir_get_n_slots(p) - 1
    /\ page_get_n_recs(p) + PAGE_HEAP_NO_USER_LOW = w.count + 1

\* the checks of the free list and of PAGE_N_HEAP
page_simple_validate_heap(p, f) ==
    /\ f.ok
    /\ page_dir_get_n_heap(p) = f.count + 1

page_simple_validate_listed(p, w) ==
    /\ page_validate_walked(p, w)
    /\ page_simple_validate_heap(p,
           page_simple_validate_free(p, p.free, w.count))

\* TRUE if the page is ok; the redundant format differs in the accessors
page_simple_validate_new(p) ==
    /\ page_dir_get_n_slots(p) <= UNIV_PAGE_SIZE \div 4
    /\ p.heap_top <= page_dir_get_nth_slot(page_dir_get_n_slots(p) - 1)
    /\ page_simple_validate_listed(p, page_simple_validate_walk(p, StartWalk(p)))

page_simple_validate_old(p) == page_simple_validate_new(p)

\* the bytes of a record: from its start to its end
RecBytes(p, rec) ==
    (rec - p.rec[rec].extra) .. (rec - p.rec[rec].extra + p.rec[rec].size - 1)

\* the record is in order, in the frame, and owned as the directory says
ValidateWalkRec(p, w) ==
    IF (w.count >= PAGE_HEAP_NO_USER_LOW /\ ~page_rec_is_supremum(p, w.rec)
           /\ p.rec[w.rec].key <= p.rec[w.old_rec].key)
       \/ (w.rec - p.rec[w.rec].extra) + p.rec[w.rec].size >= UNIV_PAGE_SIZE
    THEN [w EXCEPT !.ok = FALSE]
    ELSE WalkOwner(p,
             [w EXCEPT !.data_size =
                  IF page_rec_is_user_rec(p, w.rec) THEN @ + p.rec[w.rec].size
                  ELSE @])

ValidateWalkNext(p, w) ==
    IF ~w.ok THEN w
    ELSE IF page_rec_is_supremum(p, w.rec) THEN [w EXCEPT !.at_end = TRUE]
    ELSE [w EXCEPT !.count = @ + 1,
                   !.own_count = @ + 1,
                   !.old_rec = w.rec,
                   !.rec = page_rec_get_next(p, w.rec)]

RECURSIVE page_validate_walk(_, _)
page_validate_walk(p, w) ==
    IF ~w.ok \/ w.at_end THEN w
    ELSE page_validate_walk(p, ValidateWalkNext(p, ValidateWalkRec(p, w)))

\* no byte of the heap belongs to two records of the lists
NoOverlap(p, recs) ==
    \A i, j \in DOMAIN recs :
        i < j => RecBytes(p, recs[i]) \cap RecBytes(p, recs[j]) = {}

page_validate_listed(p, w) ==
    /\ page_validate_walked(p, w)
    /\ w.data_size = page_get_data_size(p)
    /\ NoOverlap(p, RecList(p) \o FreeList(p))
    /\ page_simple_validate_heap(p,
           page_simple_validate_free(p, p.free, w.count))

\* a validator that does not look at PAGE_MAX_TRX_ID
page_validate_any_trx_id(p, idx) ==
    /\ page_is_comp(p) = idx.comp
    /\ IF page_is_comp(p) THEN page_simple_validate_new(p)
       ELSE page_simple_validate_old(p)
    /\ p.heap_top <= page_dir_get_nth_slot(page_dir_get_n_slots(p) - 1)
    /\ page_validate_listed(p, page_validate_walk(p, StartWalk(p)))

\* TRUE if the page is ok
page_validate(p, idx) ==
    /\ page_is_comp(p) = idx.comp
    /\ IF page_is_comp(p) THEN page_simple_validate_new(p)
       ELSE page_simple_validate_old(p)
    /\ (dict_index_is_sec_or_ibuf(idx) /\ ~dict_table_is_temporary(idx)
           /\ page_is_leaf(p) /\ ~page_is_empty(p))
          => ~(p.max_trx_id = 0 \/ p.max_trx_id > trx_sys_get_max_trx_id)
    /\ p.heap_top <= page_dir_get_nth_slot(page_dir_get_n_slots(p) - 1)
    /\ page_validate_listed(p, page_validate_walk(p, StartWalk(p)))

(***************************************************************************)
(* A seventh specification: a page is filled in ascending order, records   *)
(* are deleted, and a frame is validated: the page as it is with any       *)
(* PAGE_MAX_TRX_ID, or the page with PAGE_N_RECS or PAGE_N_DIR_SLOTS off   *)
(* by one.                                                                 *)
(***************************************************************************)
ValidInserts == 9
ValidDeletes == 1

ValidIndexes ==
    IndexSet
    \cup { [comp |-> TRUE, sec |-> TRUE, temp |-> TRUE, spatial |-> FALSE] }

Frames(p) ==
    { [p EXCEPT !.max_trx_id = t] : t \in 0..(MaxTrxId + 1) }
    \cup { [p EXCEPT !.n_recs = n, !.max_trx_id = 1] :
              n \in {p.n_recs - 1, p.n_recs + 1} \cap Nat }
    \cup { [p EXCEPT !.n_dir_slots = n, !.max_trx_id = 1] :
              n \in {p.n_dir_slots - 1, p.n_dir_slots + 1} \cap (Nat \ {0}) }

InitValid ==
    /\ index \in ValidIndexes
    /\ workload = [inserts |-> ValidInserts, deletes |-> ValidDeletes, copies |-> 0]
    /\ page = page_create_low(FreshFrame, index.comp)
    /\ last = [op |-> "page_create", ret |-> 0, fatal |-> FALSE, log |-> << >>]
    /\ call = NoCall
    /\ done = NoneDone

ValidateCall ==
    /\ ~last.fatal /\ ~call.made
    /\ \E frame \in Frames(page) :
          \E ret \in {page_validate(frame, index)} :
             /\ call' = [made |-> TRUE, fn |-> "page_validate", frame |-> frame,
                         simple |-> IF page_is_comp(frame)
                                    THEN page_simple_validate_new(frame)
                                    ELSE page_simple_validate_old(frame),
                         ret |-> ret]
             /\ last' = [op |-> "page_validate", ret |-> ret, fatal |-> FALSE,
                         log |-> << >>]
    /\ UNCHANGED <<page, index, workload, done>>

NextValid ==
    \/ PageCreateEmpty
    \/ InsertAscending
    \/ Delete
    \/ ValidateCall

SpecValid == InitValid /\ [][NextValid]_vars

(***************************************************************************)
(* The validators without an index on frames whose lists are bent: the     *)
(* next-record pointer of one record of the record list points to a record *)
(* at or before it, into the free list, or to NULL; or the pointer of a    *)
(* record of the free list points to a record at or before it.             *)
(***************************************************************************)
CycleInserts == 4
CycleDeletes == 2

\* the records of the list l up to its i-th
UpTo(l, i) == {l[j] : j \in 1..i}

BentFrames(p) ==
    LET l == RecList(p)
        f == FreeList(p)
    IN  UNION { { [frame |-> [p EXCEPT !.rec[l[i]].next = to], list |-> "rec",
                   rec |-> l[i], to |-> to] :
                      to \in UpTo(l, i) \cup {0, p.free} } :
                  i \in 1..(Len(l) - 1) }
        \cup UNION { { [frame |-> [p EXCEPT !.rec[f[i]].next = to],
                        list |-> "free", rec |-> f[i], to |-> to] :
                           to \in UpTo(f, i) } :
                       i \in 1..Len(f) }
        \cup { [frame |-> p, list |-> "none", rec |-> 0, to |-> 0] }

InitCycle ==
    /\ index \in IndexSet
    /\ workload = [inserts |-> CycleInserts, deletes |-> CycleDeletes, copies |-> 0]
    /\ page = page_create_low(FreshFrame, index.comp)
    /\ last = [op |-> "page_create", ret |-> 0, fatal |-> FALSE, log |-> << >>]
    /\ call = NoCall
    /\ done = NoneDone

\* page_simple_validate_new or page_simple_validate_old on a frame, with
\* the records that its two walks counted
SimpleValidated(bent, walk) ==
    /\ call' = [made |-> TRUE, fn |-> "page_simple_validate", bent |-> bent,
                walk |-> walk,
                free |-> IF page_validate_walked(bent.frame, walk)
                         THEN page_simple_validate_free(
                                  bent.frame, bent.frame.free, walk.count)
                         ELSE [ok |-> FALSE, count |-> walk.count]]
    /\ last' = [op |-> "page_simple_validate",
                ret |-> IF page_is_comp(bent.frame)
                        THEN page_simple_validate_new(bent.frame)
                        ELSE page_simple_validate_old(bent.frame),
                fatal |-> FALSE, log |-> << >>]

SimpleValidateCall ==
    /\ ~last.fatal /\ ~call.made
    /\ \E bent \in BentFrames(page) :
          SimpleValidated(bent,
              page_simple_validate_walk(bent.frame, StartWalk(bent.frame)))
    /\ UNCHANGED <<page, index, workload, done>>

NextCycle ==
    \/ PageCreateEmpty
    \/ InsertAscending
    \/ Delete
    \/ SimpleValidateCall

SpecCycle == InitCycle /\ [][NextCycle]_vars

(***************************************************************************)
(* The redo of the delete of the end or of the start of the record list.   *)
(* The log record keeps the offset of the record in two bytes; the parser  *)
(* reads them from the buffer and calls the delete on the block, if there  *)
(* is one, with the count and the size of the records unknown.             *)
(***************************************************************************)
RedoInserts == 9
RedoDeletes == 1

\* mach_write_to_2(log_ptr, page_offset(rec)): the body of the log record
page_delete_rec_list_write_log(rec) == << (rec \div 256) % 256, rec % 256 >>

\* a parser that takes the first byte of the body for the offset
page_parse_delete_rec_list_1byte(type, buf, ptr, block, page_zip, idx, mtr) ==
    IF Len(buf) + 1 < ptr + 2 THEN [ret |-> 0, block |-> block]
    ELSE IF block = << >> THEN [ret |-> ptr + 2, block |-> block]
    ELSE LET offset == buf[ptr]
             r == IF type \in {"MLOG_LIST_END_DELETE", "MLOG_COMP_LIST_END_DELETE"}
                  THEN page_delete_rec_list_end(block[1], page_zip, idx, offset,
                           ULINT_UNDEFINED, ULINT_UNDEFINED, TRUE, mtr)
                  ELSE page_delete_rec_list_start(block[1], idx, offset, TRUE, mtr)
         IN  [ret |-> ptr + 2, block |-> << r.page >>]

\* the parser of the log record: ptr is the place in the buffer, counted
\* from 1, the end of the buffer is after its last byte; NULL is 0; the
\* block is a sequence of one page, or empty when there is no block
page_parse_delete_rec_list(type, buf, ptr, block, page_zip, idx, mtr) ==
    IF Len(buf) + 1 < ptr + 2 THEN [ret |-> 0, block |-> block]
    ELSE IF block = << >> THEN [ret |-> ptr + 2, block |-> block]
    ELSE LET offset == buf[ptr] * 256 + buf[ptr + 1]
             r == IF type \in {"MLOG_LIST_END_DELETE", "MLOG_COMP_LIST_END_DELETE"}
                  THEN page_delete_rec_list_end(block[1], page_zip, idx, offset,
                           ULINT_UNDEFINED, ULINT_UNDEFINED, TRUE, mtr)
                  ELSE page_delete_rec_list_start(block[1], idx, offset, TRUE, mtr)
         IN  [ret |-> ptr + 2, block |-> << r.page >>]

ListDeleteTypes ==
    {"MLOG_LIST_END_DELETE", "MLOG_COMP_LIST_END_DELETE",
     "MLOG_LIST_START_DELETE", "MLOG_COMP_LIST_START_DELETE"}

\* the buffers and the blocks of a redo: the whole body with the block or
\* without it, and the body cut short
RedoInputs(body, p) ==
    { [buf |-> body, block |-> << p >>], [buf |-> body, block |-> << >>] }
    \cup { [buf |-> SubSeq(body, 1, n), block |-> << p >>] : n \in 0..1 }

\* the delete that the caller made on the page, with the count and the
\* size of the records when the caller knows them
RedoOriginals(p, idx) ==
    { page_delete_rec_list_end(p, zip, idx, rec,
          IF known THEN CountFrom(p, rec, Fuel(p)) ELSE ULINT_UNDEFINED,
          IF known THEN SizeFrom(p, rec, Fuel(p)) ELSE ULINT_UNDEFINED,
          FALSE, NewMtr) @@ [zip |-> zip] :
          rec \in Range(UserRecs(p)), known \in BOOLEAN,
          zip \in {FALSE, page_is_comp(p)} }
    \cup { page_delete_rec_list_start(p, idx, rec, FALSE, NewMtr)
              @@ [zip |-> FALSE] :
              rec \in Range(UserRecs(p)) }

InitRedo ==
    /\ index \in IndexSet
    /\ workload = [inserts |-> RedoInserts, deletes |-> RedoDeletes, copies |-> 0]
    /\ page = page_create_low(FreshFrame, index.comp)
    /\ last = [op |-> "page_create", ret |-> 0, fatal |-> FALSE, log |-> << >>]
    /\ call = NoCall
    /\ done = NoneDone

\* the log record that the delete wrote is applied to the page as it was
\* before the delete
Redone(orig, rcd, in, r) ==
    /\ page' = IF in.block = << >> THEN page ELSE r.block[1]
    /\ call' = [made |-> TRUE, fn |-> "page_parse_delete_rec_list",
                before |-> page, original |-> orig.page, type |-> rcd.type,
                offs |-> rcd.offs, buf |-> in.buf, block |-> in.block]
    /\ last' = [op |-> "page_parse_delete_rec_list", ret |-> r.ret,
                fatal |-> FALSE, log |-> << >>]

RedoCall ==
    /\ ~last.fatal /\ ~call.made
    /\ \E orig \in RedoOriginals(page, index) :
          /\ ~orig.fatal
          /\ orig.mtr.log # << >>
          /\ orig.mtr.log[1].type \in ListDeleteTypes
          /\ \E in \in RedoInputs(
                    page_delete_rec_list_write_log(orig.mtr.log[1].offs), page) :
                Redone(orig, orig.mtr.log[1], in,
                       page_parse_delete_rec_list(
                           orig.mtr.log[1].type, in.buf, 1, in.block, orig.zip,
                           index, NewMtr))
    /\ UNCHANGED <<index, workload, done>>

NextRedo ==
    \/ PageCreateEmpty
    \/ InsertAscending
    \/ Delete
    \/ RedoCall

SpecRedo == InitRedo /\ [][NextRedo]_vars

(***************************************************************************)
(* A twelfth specification: a page is filled in ascending order, and then  *)
(* one mini-transaction, started in any log mode, does several operations  *)
(* on it: the deletes and copies of lists, to a compressed page too, whose *)
(* compression has any of its outcomes, and the delete of one record.  The *)
(* call record holds the mini-transaction, the log mode it was started in  *)
(* and the operations it has done, each with PAGE_N_RECS before it.        *)
(***************************************************************************)
MtrInserts == 3
MtrOps == 2
\* the first key of the page: the other pages of the copies hold the keys
\* below and above those of the page
MtrFirstKey == 3
\* the log modes a mini-transaction is started in (mtr0types.h)
LogModes == {"MTR_LOG_ALL", "MTR_LOG_NONE", "MTR_LOG_SHORT_INSERTS"}

\* whether a page in the format of p is compressed, and what compressing it
\* gives
PageZips(p) == IF page_is_comp(p) THEN {FALSE, TRUE} ELSE {FALSE}
NewPageZips(p) == IF page_is_comp(p) THEN {NoZip} \cup ZipOutcomes ELSE {NoZip}

InitMtr ==
    /\ index \in IndexSet
    /\ workload = [inserts |-> MtrInserts, deletes |-> 0, copies |-> 0]
    /\ page = page_create_low(FreshFrame, index.comp)
    /\ last = [op |-> "page_create", ret |-> 0, fatal |-> FALSE, log |-> << >>]
    /\ call = NoCall
    /\ done = NoneDone

\* the page is filled in ascending order from MtrFirstKey on
MtrInsert ==
    /\ ~last.fatal /\ ~call.made
    /\ done.inserts < workload.inserts
    /\ \E key \in AscendingKeys(page) :
          /\ page_is_empty(page) => key = MtrFirstKey
          /\ LET r == page_cur_insert_rec_low(page, CursorFor(page, key), key, NewMtr)
             IN  page' = r.page /\ last' = Done("page_cur_insert_rec_low", r)
    /\ done' = [done EXCEPT !.inserts = @ + 1]
    /\ UNCHANGED <<index, call, workload>>

MtrStart ==
    /\ ~last.fatal /\ ~call.made
    /\ \E mode \in LogModes :
          call' = [made |-> TRUE, entry |-> mode,
                   mtr |-> mtr_set_log_mode(NewMtr, mode), trail |-> << >>]
    /\ UNCHANGED <<page, index, last, workload, done>>

\* the operation fn of the mini-transaction, on a page compressed as zip
\* says, gave r
MtrDone(fn, zip, r) ==
    /\ page' = r.page
    /\ last' = Done(fn, r)
    /\ call' = [call EXCEPT !.mtr = r.mtr,
                            !.trail = Append(@, [fn |-> fn, zip |-> zip,
                                                 n_recs |-> page.n_recs])]

MtrRuns == call.made /\ ~last.fatal /\ Len(call.trail) < MtrOps

MtrDeleteRecListEnd ==
    /\ MtrRuns
    /\ \E rec \in Range(RecList(page)), page_zip \in PageZips(page) :
          MtrDone("page_delete_rec_list_end", page_zip,
                  page_delete_rec_list_end(page, page_zip, index, rec,
                      ULINT_UNDEFINED, ULINT_UNDEFINED, FALSE, call.mtr))
    /\ UNCHANGED <<index, workload, done>>

MtrDeleteRecListStart ==
    /\ MtrRuns
    /\ \E rec \in Range(RecList(page)) :
          MtrDone("page_delete_rec_list_start", FALSE,
                  page_delete_rec_list_start(page, index, rec, FALSE, call.mtr))
    /\ UNCHANGED <<index, workload, done>>

MtrCopyRecListEnd ==
    /\ MtrRuns
    /\ LET src == SourceBelow(page)
       IN  \E rec \in Range(RecList(src)), new_page_zip \in NewPageZips(page) :
              LET first == IF page_rec_is_infimum(src, rec)
                           THEN page_rec_get_next(src, rec) ELSE rec
                  n     == CountFrom(src, first, Fuel(src))
              IN  /\ SizeFrom(src, first, Fuel(src))
                         <= page_get_max_insert_size(page, n)
                  /\ MtrDone("page_copy_rec_list_end", new_page_zip,
                             page_copy_rec_list_end(page, new_page_zip, src, rec,
                                                    index, call.mtr))
    /\ UNCHANGED <<index, workload, done>>

MtrCopyRecListStart ==
    /\ MtrRuns
    /\ LET src == SourceAbove(page)
       IN  \E rec \in Range(RecList(src)), new_page_zip \in NewPageZips(page) :
              LET first == page_rec_get_next(src, page_get_infimum_rec(src))
                  n     == CountFrom(src, first, Fuel(src))
                           - CountFrom(src, rec, Fuel(src))
                  size  == SizeFrom(src, first, Fuel(src))
                           - SizeFrom(src, rec, Fuel(src))
              IN  /\ size <= page_get_max_insert_size(page, n)
                  /\ MtrDone("page_copy_rec_list_start", new_page_zip,
                             page_copy_rec_list_start(page, new_page_zip, src, rec,
                                                      index, call.mtr))
    /\ UNCHANGED <<index, workload, done>>

\* an operation that is logged by itself
MtrDeleteRec ==
    /\ MtrRuns
    /\ \E rec \in Range(UserRecs(page)) :
          MtrDone("page_cur_delete_rec", FALSE,
                  page_cur_delete_rec(page, index, rec, FALSE, call.mtr))
    /\ UNCHANGED <<index, workload, done>>

NextMtr ==
    \/ PageCreateEmpty
    \/ MtrInsert
    \/ MtrStart
    \/ MtrDeleteRecListEnd
    \/ MtrDeleteRecListStart
    \/ MtrCopyRecListEnd
    \/ MtrCopyRecListStart
    \/ MtrDeleteRec

SpecMtr == InitMtr /\ [][NextMtr]_vars

(***************************************************************************)
(* An eighth specification: a page is filled in ascending order, records   *)
(* are deleted, and a record is looked up through the directory: its owner *)
(* slot, its position in the list, or the record at a position.  The       *)
(* owner slot is also looked up on a frame one of whose slots has been     *)
(* overwritten.                                                            *)
(***************************************************************************)
\* the page, and the page with one slot of its directory zeroed
DirFrames(p) ==
    {p} \cup { [p EXCEPT !.dir[i] = 0] : i \in 1..page_dir_get_n_slots(p) }

FindOwnerCall ==
    /\ ~last.fatal /\ ~call.made
    /\ \E frame \in DirFrames(page), rec \in Range(RecList(page)) :
          \E ret \in {page_dir_find_owner_slot(frame, rec)} :
             /\ call' = [made |-> TRUE, fn |-> "page_dir_find_owner_slot",
                         frame |-> frame, rec |-> rec, ret |-> ret]
             /\ last' = [op |-> "page_dir_find_owner_slot", ret |-> ret,
                         fatal |-> ret < 0, log |-> << >>]
    /\ UNCHANGED <<page, index, workload, done>>

GetNthCall ==
    /\ ~last.fatal /\ ~call.made
    /\ \E nth \in 0..(page_get_n_recs(page) + 1) :
          \E ret \in {page_rec_get_nth(page, nth)} :
             /\ call' = [made |-> TRUE, fn |-> "page_rec_get_nth",
                         frame |-> page, nth |-> nth, ret |-> ret,
                         before |-> page_rec_get_n_recs_before(page, ret)]
             /\ last' = [op |-> "page_rec_get_nth", ret |-> ret,
                         fatal |-> FALSE, log |-> << >>]
    /\ UNCHANGED <<page, index, workload, done>>

NRecsBeforeCall ==
    /\ ~last.fatal /\ ~call.made
    /\ \E rec \in Range(RecList(page)) :
          \E ret \in {page_rec_get_n_recs_before(page, rec)} :
             /\ call' = [made |-> TRUE, fn |-> "page_rec_get_n_recs_before",
                         frame |-> page, rec |-> rec, ret |-> ret,
                         nth |-> page_rec_get_nth(page, ret)]
             /\ last' = [op |-> "page_rec_get_n_recs_before", ret |-> ret,
                         fatal |-> FALSE, log |-> << >>]
    /\ UNCHANGED <<page, index, workload, done>>

NextLookup ==
    \/ PageCreateEmpty
    \/ InsertAscending
    \/ Delete
    \/ FindOwnerCall
    \/ GetNthCall
    \/ NRecsBeforeCall

SpecLookup == InitValid /\ [][NextLookup]_vars

(***************************************************************************)
(* Properties.                                                             *)
(***************************************************************************)
NoDup(seq) == \A i, j \in DOMAIN seq : i # j => seq[i] # seq[j]

RECURSIVE SumOwned(_, _)
\* the sum of n_owned over the slots 0..n
SumOwned(p, n) ==
    IF n < 0 THEN 0
    ELSE (IF page_dir_slot_get_rec(p, n) \in DOMAIN p.rec
          THEN page_dir_slot_get_n_owned(p, n) ELSE 0) + SumOwned(p, n - 1)

\* no operation of the code ended in ut_error
NeverFatal == ~last.fatal

\* C1: following the next-record pointers from the infimum visits every live
\* user record (every heap record that is not on the free list) exactly once,
\* in strictly ascending key order, and reaches the supremum after exactly
\* n_recs + 1 steps; no record is met twice and no record of the free list is
\* in the chain.
C1_RecordListOrdered ==
    LET l == RecList(page)
        n == Len(l)
    IN  /\ n = page_get_n_recs(page) + 2
        /\ l[1] = page_get_infimum_rec(page)
        /\ l[n] = page_get_supremum_rec(page)
        /\ \A i \in 1..(n - 1) : l[i] # page_get_supremum_rec(page)
        /\ NoDup(l)
        /\ \A i \in 2..(n - 2) : page.rec[l[i]].key < page.rec[l[i + 1]].key
        /\ Range(l) \cap Range(FreeList(page)) = {}
        /\ Range(l) \cup Range(FreeList(page)) = DOMAIN page.rec

\* records were bulk-copied into a page that had lost records to a delete
C1_Witness ==
    /\ last.op = "page_copy_rec_list_end" /\ ~last.fatal
    /\ done.deletes = 1 /\ done.inserts >= 5
    /\ page.free # 0
    /\ page_get_n_recs(page) >= 5

\* C2: the sum of n_owned over all directory slots equals n_recs + 2, which
\* is the number of records met by the traversal from the infimum.
C2_OwnedSum ==
    /\ SumOwned(page, page_dir_get_n_slots(page) - 1) = page_get_n_recs(page) + 2
    /\ page_get_n_recs(page) + 2 = Len(RecList(page))

C2_Witness ==
    /\ last.op = "page_delete_rec_list_end"
    /\ page_dir_get_n_slots(page) >= 3
    /\ page.free # 0

C4_SlotDistance ==
    \A i \in 0..(page_dir_get_n_slots(page) - 2) :
        LET from    == page_dir_slot_get_rec(page, i)
            to      == page_dir_slot_get_rec(page, i + 1)
        IN  /\ from \in DOMAIN page.rec /\ to \in DOMAIN page.rec
            /\ NthNext(page, from, page.rec[to].n_owned) = to
            /\ \A k \in 1..(page.rec[to].n_owned - 1) :
                  LET r == NthNext(page, from, k)
                  IN  r \in DOMAIN page.rec /\ r # to /\ page.rec[r].n_owned = 0
            /\ LET l == RecList(page)
               IN  \E a, b \in 1..Len(l) : a < b /\ l[a] = from /\ l[b] = to

C4_Witness ==
    /\ page_dir_get_n_slots(page) >= 3
    /\ last.op = "page_delete_rec_list_start"
    /\ page_dir_slot_get_n_owned(page, 1) = PAGE_DIR_SLOT_MAX_N_OWNED - 1

\* C5: the heap top never exceeds the address of the last (supremum) slot:
\* neither the heap allocator nor a slot split, which checks no space, makes
\* the heap and the directory overlap.
C5_HeapBelowDirectory ==
    page.heap_top <= page_dir_get_nth_slot(page_dir_get_n_slots(page) - 1)

C5_Witness ==
    /\ last.op = "page_cur_insert_rec_low" /\ last.ret # 0
    /\ page_dir_get_n_slots(page) >= 4
    /\ page_get_max_insert_size(page, 1) < 2

\* C6: the number of heap records without the compact flag equals
\* n_recs + the length of the free list + 2, and the free list ends at NULL.
C6_HeapCount ==
    LET f == FreeList(page)
    IN  /\ NoDup(f)
        /\ f # << >> => page.rec[f[Len(f)]].next = 0
        /\ page_dir_get_n_heap(page) = page_get_n_recs(page) + Len(f) + 2

C6_Witness ==
    /\ Len(FreeList(page)) >= 3
    /\ page_get_n_recs(page) >= 2
    /\ done.deletes = 2
    /\ last.op = "page_delete_rec_list_end"

\* C7: a successful call of the heap allocator returns as heap number the
\* number of heap records before the call; the heap numbers of the records
\* of the heap (live or free) are distinct, grow with the records' addresses
\* as they were allocated, and are all below the number of heap records.
C7_HeapNumbers ==
    /\ (call.made /\ call.block # 0)
           => call.heap_no = page_dir_get_n_heap(call.before)
    /\ \A r \in DOMAIN page.rec : page.rec[r].heap_no < page_dir_get_n_heap(page)
    /\ \A r1, r2 \in DOMAIN page.rec :
           r1 < r2 => page.rec[r1].heap_no < page.rec[r2].heap_no

C7_Witness ==
    /\ call.made /\ call.block # 0
    /\ page.free # 0
    /\ page_get_n_recs(page) >= 3

\* the records of the page without their n_owned fields: the record list,
\* the free list and the contents of the records
Unowned(p) == [r \in DOMAIN p.rec |-> [p.rec[r] EXCEPT !.n_owned = 0]]

\* slot i of the page p is slot j of the page q: same record, same n_owned
SameSlot(p, i, q, j) ==
    /\ page_dir_slot_get_rec(p, i) = page_dir_slot_get_rec(q, j)
    /\ page_dir_slot_get_n_owned(p, i) = page_dir_slot_get_n_owned(q, j)

\* C11: page_dir_split_slot on slot k owning N = MAX_N_OWNED + 1 = 9 records
\* puts a new slot at index k that points to the record N / 2 = 4 next-steps
\* after the record of slot k - 1 and owns 4; the old owner, now at index
\* k + 1, owns 5; the slots from k on move up by one and keep their records,
\* the slots below k are unchanged; n_dir_slots grows by one; the record
\* list, n_recs and the sum of n_owned do not change.
C11_SplitSlot ==
    (call.made /\ call.fn = "page_dir_split_slot") =>
        LET b == call.before
            k == call.slot_no
            n == page_dir_get_n_slots(b)
        IN  /\ page_dir_slot_get_n_owned(b, k) = PAGE_DIR_SLOT_MAX_N_OWNED + 1
            /\ page_dir_get_n_slots(page) = n + 1
            /\ page_dir_slot_get_rec(page, k)
                   = NthNext(b, page_dir_slot_get_rec(b, k - 1), 4)
            /\ page_dir_slot_get_n_owned(page, k) = 4
            /\ page_dir_slot_get_rec(page, k + 1) = page_dir_slot_get_rec(b, k)
            /\ page_dir_slot_get_n_owned(page, k + 1) = 5
            /\ \A i \in 0..(k - 1) : SameSlot(page, i, b, i)
            /\ \A i \in (k + 1)..(n - 1) : SameSlot(page, i + 1, b, i)
            /\ Unowned(page) = Unowned(b)
            /\ RecList(page) = RecList(b)
            /\ page_get_n_recs(page) = page_get_n_recs(b)
            /\ SumOwned(page, n) = SumOwned(b, n - 1)

\* a slot in the middle of the directory was split: a slot below it stayed
\* and two slots above it moved up
C11_Witness ==
    /\ call.made /\ call.fn = "page_dir_split_slot"
    /\ call.slot_no = 1
    /\ page_dir_get_n_slots(call.before) = 3
    /\ page_dir_get_n_slots(page) = 4
    /\ page_dir_slot_get_n_owned(call.before, 1) = 9

\* C12: page_dir_balance_slot on slot k, not the last, owning
\* MIN_N_OWNED - 1 records: if the upper slot u owns more than MIN_N_OWNED,
\* the pointer of slot k advances one record, the former owner's n_owned
\* becomes 0, the new owner's MIN_N_OWNED, u owns one less and n_dir_slots
\* stays; otherwise slot k is deleted, u owns its records too (at most
\* 2 * MIN_N_OWNED - 1 <= MAX_N_OWNED), the higher slots move down by one and
\* n_dir_slots decreases by one.  The sum of n_owned and the record list do
\* not change.
C12_BalanceSlot ==
    (/\ call.made /\ call.fn = "page_dir_balance_slot"
     /\ call.slot_no # page_dir_get_n_slots(call.before) - 1) =>
        LET b     == call.before
            k     == call.slot_no
            n     == page_dir_get_n_slots(b)
            old   == page_dir_slot_get_rec(b, k)
            u     == page_dir_slot_get_n_owned(b, k + 1)
        IN  /\ page_dir_slot_get_n_owned(b, k) = PAGE_DIR_SLOT_MIN_N_OWNED - 1
            /\ Unowned(page) = Unowned(b)
            /\ RecList(page) = RecList(b)
            /\ \A i \in 0..(k - 1) : SameSlot(page, i, b, i)
            /\ IF u > PAGE_DIR_SLOT_MIN_N_OWNED
               THEN /\ page_dir_slot_get_rec(page, k) = page_rec_get_next(b, old)
                    /\ page.rec[old].n_owned = 0
                    /\ page_dir_slot_get_n_owned(page, k) = PAGE_DIR_SLOT_MIN_N_OWNED
                    /\ page_dir_slot_get_rec(page, k + 1)
                           = page_dir_slot_get_rec(b, k + 1)
                    /\ page_dir_slot_get_n_owned(page, k + 1) = u - 1
                    /\ \A i \in (k + 2)..(n - 1) : SameSlot(page, i, b, i)
                    /\ page_dir_get_n_slots(page) = n
                    /\ SumOwned(page, n - 1) = SumOwned(b, n - 1)
               ELSE /\ page.rec[old].n_owned = 0
                    /\ page_dir_slot_get_rec(page, k) = page_dir_slot_get_rec(b, k + 1)
                    /\ page_dir_slot_get_n_owned(page, k)
                           = u + PAGE_DIR_SLOT_MIN_N_OWNED - 1
                    /\ page_dir_slot_get_n_owned(page, k)
                           <= 2 * PAGE_DIR_SLOT_MIN_N_OWNED - 1
                    /\ 2 * PAGE_DIR_SLOT_MIN_N_OWNED - 1 <= PAGE_DIR_SLOT_MAX_N_OWNED
                    /\ \A i \in (k + 2)..(n - 1) : SameSlot(page, i - 1, b, i)
                    /\ page_dir_get_n_slots(page) = n - 1
                    /\ SumOwned(page, n - 2) = SumOwned(b, n - 1)

\* a slot was merged into an upper slot that is not the last one, and a
\* higher slot moved down
C12_Witness ==
    /\ call.made /\ call.fn = "page_dir_balance_slot"
    /\ call.slot_no = 1
    /\ page_dir_get_n_slots(call.before) = 4
    /\ page_dir_get_n_slots(page) = 3
    /\ page_dir_slot_get_n_owned(call.before, 2) = PAGE_DIR_SLOT_MIN_N_OWNED

\* an entry was inserted and its record deleted at once
InsertDeleteMade == call.made /\ call.fn = "insert_delete"

\* the number of records each slot of the page owns
OwnedCounts(p) ==
    [i \in 0..(page_dir_get_n_slots(p) - 1) |-> page_dir_slot_get_n_owned(p, i)]

\* the record each slot of the page points to
SlotRecs(p) ==
    [i \in 0..(page_dir_get_n_slots(p) - 1) |-> page_dir_slot_get_rec(p, i)]

\* the keys of the records of the page in list order, the infimum and the
\* supremum with the key 0
KeysOfList(p) == [i \in DOMAIN RecList(p) |-> p.rec[RecList(p)[i]].key]

\* the keys of the user records of the page in list order
ListKeys(p) == [i \in DOMAIN UserRecs(p) |-> p.rec[UserRecs(p)[i]].key]

\* C21 as stated: the insert of an entry whose key is not on the page and
\* the delete of its record restore every field of the page header but the
\* modify clock, the garbage, n_heap, the heap top and the head of the free
\* list, and restore n_dir_slots, n_recs and the number of records each
\* slot owns, also when the insert split a slot.
C21_Original ==
    InsertDeleteMade =>
        /\ page_dir_get_n_slots(page) = page_dir_get_n_slots(call.before)
        /\ page_get_n_recs(page) = page_get_n_recs(call.before)
        /\ OwnedCounts(page) = OwnedCounts(call.before)
        /\ page.last_insert = call.before.last_insert
        /\ page.max_trx_id = call.before.max_trx_id
        /\ page.level = call.before.level

\* C21: the insert of an entry whose key is not on the page and the delete
\* of its record restore n_recs, PAGE_MAX_TRX_ID, the level and the keys of
\* the record list, and leave PAGE_LAST_INSERT empty.  If the insert split
\* no slot, the directory is the one before the insert: n_dir_slots, the
\* record of each slot and the number of records each slot owns.  If the
\* insert split a slot, n_dir_slots is one more than before the insert.
C21_InsertDelete ==
    InsertDeleteMade =>
        LET b == call.before
            n == page_dir_get_n_slots(b)
        IN  /\ ~last.fatal
            /\ page_get_n_recs(page) = page_get_n_recs(b)
            /\ page.max_trx_id = b.max_trx_id
            /\ page.level = b.level
            /\ ListKeys(page) = ListKeys(b)
            /\ page.last_insert = 0
            /\ ~call.split =>
                   /\ page_dir_get_n_slots(page) = n
                   /\ OwnedCounts(page) = OwnedCounts(b)
                   /\ SlotRecs(page) = SlotRecs(b)
            /\ call.split => page_dir_get_n_slots(page) = n + 1

\* the insert split a slot of a page that had inserted a record before,
\* and after the delete the page has one slot more than before the insert
C21_Witness ==
    /\ InsertDeleteMade /\ call.split
    /\ call.before.last_insert # 0
    /\ page_dir_get_n_slots(page) = page_dir_get_n_slots(call.before) + 1
    /\ page_get_n_recs(page) = page_get_n_recs(call.before)

\* since the page was created, the entries with the keys 1..n were inserted
\* into it in ascending order and nothing else was done: the record with
\* the key k has the heap number k + 1
AscendingRun(n) ==
    /\ done = [inserts |-> n, deletes |-> 0, copies |-> 0]
    /\ ~last.fatal
    /\ page_get_n_recs(page) = n
    /\ ListKeys(page) = [i \in 1..n |-> i]
    /\ \A i \in 1..n : page.rec[UserRecs(page)[i]].heap_no = i + 1

\* the page after the inserts of the keys 1..9 in ascending order
NineInserted ==
    /\ page_get_n_recs(page) = 9
    /\ page_dir_get_n_slots(page) = 3
    /\ OwnedCounts(page) = (0 :> 1) @@ (1 :> 4) @@ (2 :> 6)
    /\ KeysOfList(page) = <<0, 1, 2, 3, 4, 5, 6, 7, 8, 9, 0>>
    /\ page_rec_is_supremum(page, RecList(page)[11])
    /\ page.rec[page_dir_slot_get_rec(page, 1)].key = 4

\* the nth insert of the keys 1..9 in ascending order into an empty page
\* splits a slot if n = at and no slot otherwise, and the page after the
\* 9th insert is NineInserted
SplitAt(at) ==
    \A n \in 1..9 :
        (AscendingRun(n - 1) /\ AscendingRun(n)') =>
            /\ page_dir_get_n_slots(page)'
                   = page_dir_get_n_slots(page) + (IF n = at THEN 1 ELSE 0)
            /\ n = 9 => NineInserted'

\* C22 as stated: starting from an empty page and inserting the keys 1..9
\* in ascending order, no slot is split during the inserts 1..8 and one is
\* split at the 9th insert; the page then has n_recs = 9 and n_dir_slots = 3,
\* slot 1 owns 4 records and slot 2 the other user records and the
\* supremum, and the list yields 1..9 and then the supremum.
C22_Original == [][SplitAt(9)]_vars

\* C22: starting from an empty page and inserting the keys 1..9 in ascending
\* order, the one split happens at the 8th insert, when the supremum, which
\* owns itself too, comes to own PAGE_DIR_SLOT_MAX_N_OWNED + 1 = 9 records,
\* and at no other insert; the page after the 9th insert has n_recs = 9 and
\* n_dir_slots = 3, slot 1 owns the 4 records with the keys 1..4 and slot 2
\* the 5 other user records and the supremum, and the list yields 1..9 and
\* then the supremum.
C22_NineInserts == [][SplitAt(PAGE_DIR_SLOT_MAX_N_OWNED)]_vars

\* the keys 1..9 were inserted in ascending order into an empty page of the
\* compact format
C22_Witness ==
    /\ AscendingRun(9)
    /\ page_is_comp(page)
    /\ NineInserted

\* the place of the record rec in the sequence l of records
IndexOf(l, rec) == CHOOSE i \in DOMAIN l : l[i] = rec

\* the records of the page p from rec up to the supremum: their number and
\* the sum of their sizes, as a caller that knows them passes them
EndCount(p, rec) ==
    IF page_rec_is_infimum(p, rec) THEN page_get_n_recs(p)
    ELSE CountFrom(p, rec, Fuel(p))
EndSize(p, rec) ==
    IF page_rec_is_infimum(p, rec)
    THEN SizeFrom(p, page_rec_get_next(p, rec), Fuel(p))
    ELSE SizeFrom(p, rec, Fuel(p))

\* the user records of the page but the first one
LaterUserRecs(p) ==
    Range(UserRecs(p)) \ {page_rec_get_next(p, page_get_infimum_rec(p))}

\* the page q is the page p without the record rec and its successors
ListEndDeleted(p, q, rec) ==
    LET l     == RecList(p)
        i     == IndexOf(l, rec)
        s     == page_dir_find_owner_slot(p, rec)
        below == IndexOf(l, page_dir_slot_get_rec(p, s - 1))
    IN  /\ RecList(q) = SubSeq(l, 1, i - 1) \o << page_get_supremum_rec(p) >>
        /\ \A j \in 1..(i - 1) : q.rec[l[j]].key = p.rec[l[j]].key
        /\ \A j \in i..(Len(l) - 1) : l[j] \in Range(FreeList(q))
        /\ page_get_n_recs(q) = page_get_n_recs(p) - (Len(l) - i)
        /\ page_dir_get_n_slots(q) = s + 1
        /\ page_dir_slot_get_rec(q, s) = page_get_supremum_rec(q)
        /\ page_dir_slot_get_n_owned(q, s) = (i - below - 1) + 1
        /\ \A j \in 0..(s - 1) : SameSlot(q, j, p, j)

C14_DeleteListEndLog ==
    /\ \A rec \in LaterUserRecs(page), known \in BOOLEAN, recv \in BOOLEAN,
          page_zip \in {FALSE, page_is_comp(page)} :
          LET r == page_delete_rec_list_end(page, page_zip, index, rec,
                       IF known THEN EndCount(page, rec) ELSE ULINT_UNDEFINED,
                       IF known THEN EndSize(page, rec) ELSE ULINT_UNDEFINED,
                       recv, NewMtr)
          IN  /\ ~r.fatal
              /\ r.mtr.log = << [type |-> IF page_is_comp(page)
                                          THEN "MLOG_COMP_LIST_END_DELETE"
                                          ELSE "MLOG_LIST_END_DELETE",
                                 offs |-> rec] >>
              /\ rec \in 0..65535
              /\ r.mtr.log_mode = NewMtr.log_mode
              /\ page_get_n_recs(r.page) < page_get_n_recs(page)
    /\ \A recv \in BOOLEAN, page_zip \in {FALSE, page_is_comp(page)} :
          LET r == page_delete_rec_list_end(page, page_zip, index,
                       page_get_supremum_rec(page), 0, 0, recv, NewMtr)
          IN  ~r.fatal /\ r.mtr.log = << >> /\ r.page = page

\* the only delete on a compact page so far took two records or more off
\* the end of the list, with one log record; the page still has a proper
\* suffix, and an insert set PAGE_LAST_INSERT again
C14_Witness ==
    /\ last.op = "page_cur_insert_rec_low" /\ ~last.fatal
    /\ done.deletes = 1 /\ workload.deletes = 1
    /\ page_is_comp(page)
    /\ Len(FreeList(page)) >= 2
    /\ page.modify_clock = 2
    /\ page.last_insert # 0
    /\ LaterUserRecs(page) # {}

\* the first user record of the page
FirstUserRec(p) == page_rec_get_next(p, page_get_infimum_rec(p))

\* page_delete_rec_list_end(page, first user record) gives the page and the
\* log records of page_create_empty(page)
DeleteFromFirstIsCreateEmpty(known, recv) ==
    LET rec == FirstUserRec(page)
        r   == page_delete_rec_list_end(page, FALSE, index, rec,
                   IF known THEN EndCount(page, rec) ELSE ULINT_UNDEFINED,
                   IF known THEN EndSize(page, rec) ELSE ULINT_UNDEFINED,
                   recv, NewMtr)
        c   == page_create_empty(page, index, NewMtr)
    IN  /\ ~r.fatal
        /\ r.page = c.page
        /\ r.mtr.log = c.mtr.log
        /\ page_get_n_recs(r.page) = 0
        /\ page_dir_get_n_slots(r.page) = 2
        /\ r.page.free = 0
        /\ r.page.garbage = 0
        /\ page_dir_get_n_heap(r.page) = PAGE_HEAP_NO_USER_LOW
        /\ r.page.heap_top = (IF page_is_comp(page) THEN PAGE_NEW_SUPREMUM_END
                              ELSE PAGE_OLD_SUPREMUM_END)
        /\ r.page.max_trx_id = page.max_trx_id

\* C15 as the specification states it: page_delete_rec_list_end(page, first
\* user record) is equivalent to page_create_empty(page), in the page it
\* leaves and in the log records it writes, for every page and whether or
\* not the call is made during redo recovery.
C15_Original ==
    page_get_n_recs(page) > 0 =>
        /\ \A known \in BOOLEAN : DeleteFromFirstIsCreateEmpty(known, FALSE)
        /\ DeleteFromFirstIsCreateEmpty(FALSE, TRUE)

\* C15, amended: outside redo recovery page_delete_rec_list_end(page, first
\* user record) leaves the page and the log records of page_create_empty(page)
\* (no records, two slots, empty free list, no garbage, n_heap 2, heap top at
\* the end of the supremum, PAGE_MAX_TRX_ID kept).  During redo recovery the
\* page is not created anew: the list becomes empty with two slots, but the
\* records go to the free list, n_heap and the heap top stay, the garbage
\* grows by their size, and a LIST_END_DELETE record is written instead of a
\* PAGE_CREATE record.
C15_DeleteFromFirst ==
    page_get_n_recs(page) > 0 =>
        /\ \A known \in BOOLEAN : DeleteFromFirstIsCreateEmpty(known, FALSE)
        /\ LET rec == FirstUserRec(page)
               r   == page_delete_rec_list_end(page, FALSE, index, rec,
                          ULINT_UNDEFINED, ULINT_UNDEFINED, TRUE, NewMtr)
           IN  /\ ~r.fatal
               /\ page_get_n_recs(r.page) = 0
               /\ RecList(r.page) = << page_get_infimum_rec(page),
                                       page_get_supremum_rec(page) >>
               /\ page_dir_get_n_slots(r.page) = 2
               /\ page_dir_slot_get_n_owned(r.page, 1) = 1
               /\ r.page.free = rec
               /\ r.page.n_heap = page.n_heap
               /\ r.page.heap_top = page.heap_top
               /\ r.page.garbage = page.garbage + EndSize(page, rec)
               /\ r.page.max_trx_id = page.max_trx_id
               /\ r.mtr.log = << [type |-> IF page_is_comp(page)
                                           THEN "MLOG_COMP_LIST_END_DELETE"
                                           ELSE "MLOG_LIST_END_DELETE",
                                  offs |-> rec] >>

\* all records of a page were deleted by a page_delete_rec_list_end during
\* redo recovery: the page is empty and its records are on the free list
C15_Witness ==
    /\ last.op = "page_delete_rec_list_end" /\ ~last.fatal
    /\ page_get_n_recs(page) = 0
    /\ page_dir_get_n_slots(page) = 2
    /\ Len(FreeList(page)) >= 5
    /\ Len(last.log) = 1 /\ last.log[1].offs = page.free

\* the page q is the page p without the user records in front of rec
ListStartDeleted(p, q, rec) ==
    LET l == RecList(p)
        i == IndexOf(l, rec)
    IN  /\ RecList(q) = << page_get_infimum_rec(p) >> \o SubSeq(l, i, Len(l))
        /\ \A j \in i..(Len(l) - 1) : q.rec[l[j]].key = p.rec[l[j]].key
        /\ \A j \in 2..(i - 1) : l[j] \in Range(FreeList(q))
        /\ page_get_n_recs(q) = page_get_n_recs(p) - (i - 2)

\* C16: page_delete_rec_list_start(page, rec) removes exactly the user
\* records in front of rec and keeps rec and its successors in their order;
\* with rec the infimum the page is unchanged and nothing is logged; with
\* rec the supremum the page is created empty anew; otherwise exactly one
\* MLOG_LIST_START_DELETE record (or its compact form) with the 2-byte
\* offset of rec is written and the single deletes are not logged.
C16_DeleteListStart ==
    \A rec \in Range(RecList(page)), recv \in BOOLEAN :
        LET r == page_delete_rec_list_start(page, index, rec, recv, NewMtr)
        IN  /\ ~r.fatal
            /\ page_rec_is_infimum(page, rec) =>
                   r.page = page /\ r.mtr.log = << >>
            /\ page_rec_is_supremum(page, rec) =>
                   /\ r.page = page_create_empty(page, index, NewMtr).page
                   /\ RecList(r.page) = << page_get_infimum_rec(page),
                                           page_get_supremum_rec(page) >>
                   /\ page_get_n_recs(r.page) = 0
            /\ page_rec_is_user_rec(page, rec) =>
                   /\ ListStartDeleted(page, r.page, rec)
                   /\ r.mtr.log = << [type |-> IF page_is_comp(page)
                                               THEN "MLOG_COMP_LIST_START_DELETE"
                                               ELSE "MLOG_LIST_START_DELETE",
                                      offs |-> rec] >>
                   /\ rec \in 0..65535
                   /\ r.mtr.log_mode = NewMtr.log_mode

\* the only delete so far took three records or more off the start of the
\* list, with one log record that names the record now first, and five
\* records or more are left
C16_Witness ==
    /\ last.op = "page_delete_rec_list_start" /\ ~last.fatal
    /\ Len(last.log) = 1
    /\ last.log[1].offs = FirstUserRec(page)
    /\ done.deletes = 1
    /\ Len(FreeList(page)) >= 3
    /\ page_get_n_recs(page) >= 5

\* the keys of the records l of the page p, in the order of l
KeysOf(p, l) == [i \in DOMAIN l |-> p.rec[l[i]].key]

\* the user records of src from rec on, from the first one if rec is the
\* infimum
RecsFrom(src, rec) ==
    LET l == UserRecs(src)
    IN  IF page_rec_is_infimum(src, rec) THEN l
        ELSE IF page_rec_is_supremum(src, rec) THEN << >>
        ELSE SubSeq(l, IndexOf(l, rec), Len(l))

\* the user records of src in front of rec
RecsBefore(src, rec) ==
    LET l == UserRecs(src)
    IN  IF page_rec_is_infimum(src, rec) THEN << >>
        ELSE IF page_rec_is_supremum(src, rec) THEN l
        ELSE SubSeq(l, 1, IndexOf(l, rec) - 1)

\* the sum of the sizes of the records l of the page p
RECURSIVE SizeOf(_, _)
SizeOf(p, l) == IF l = << >> THEN 0 ELSE p.rec[Head(l)].size + SizeOf(p, Tail(l))

\* the records l of src fit into the page p, as the callers of the copies
\* see to
Fits(p, src, l) == SizeOf(src, l) <= page_get_max_insert_size(p, Len(l))

\* C17 as the specification states it: page_copy_rec_list_end(src, rec, dst)
\* copies the user records of src from rec on (from the first one if rec is
\* the infimum) in their order and appends them to the end of the user
\* records of dst, behind every record dst held before.
C17_Original ==
    LET src == SourceBelow(page)
    IN  \A rec \in Range(RecList(src)) :
            Fits(page, src, RecsFrom(src, rec)) =>
                LET r == page_copy_rec_list_end(page, NoZip, src, rec, index, NewMtr)
                IN  /\ ~r.fatal
                    /\ KeysOf(r.page, UserRecs(r.page))
                           = KeysOf(page, UserRecs(page))
                             \o KeysOf(src, RecsFrom(src, rec))

\* C17, amended: page_copy_rec_list_end(src, rec, dst) copies the user
\* records of src from rec on (from the first one if rec is the infimum) up
\* to the supremum, in their order, to the start of the record list of dst:
\* behind the infimum and in front of every user record dst held before,
\* which stay where they are in their order.  It returns the record that
\* followed the infimum of dst before the call.
C17_CopyListEnd ==
    LET src == SourceBelow(page)
    IN  \A rec \in Range(RecList(src)) :
            Fits(page, src, RecsFrom(src, rec)) =>
                LET r    == page_copy_rec_list_end(page, NoZip, src, rec, index, NewMtr)
                    n    == Len(RecsFrom(src, rec))
                    l    == UserRecs(r.page)
                IN  /\ ~r.fatal
                    /\ KeysOf(r.page, l)
                           = KeysOf(src, RecsFrom(src, rec))
                             \o KeysOf(page, UserRecs(page))
                    /\ SubSeq(l, n + 1, Len(l)) = UserRecs(page)
                    /\ page_get_n_recs(r.page) = page_get_n_recs(page) + n
                    /\ r.ret = FirstUserRec(page)

\* records were copied to the start of a page that held records: the record
\* that was its first one, which the copy returned, is not the first any more
C17_Witness ==
    /\ last.op = "page_copy_rec_list_end" /\ ~last.fatal
    /\ page_rec_is_user_rec(page, last.ret)
    /\ FirstUserRec(page) # last.ret
    /\ page.rec[FirstUserRec(page)].key < page.rec[last.ret].key
    /\ page_get_n_recs(page) >= 6

\* the last record of the page in front of the supremum
LastRec(p) == page_rec_get_prev(p, page_get_supremum_rec(p))

\* C18: page_copy_rec_list_start(src, rec, dst) copies exactly the user
\* records of src in front of rec, in their order, behind the record that
\* was the last of dst and in front of the supremum; the records dst held
\* stay; with rec the infimum dst is unchanged; it returns the record that
\* preceded the supremum of dst before the call, the infimum if dst was
\* empty.
C18_CopyListStart ==
    LET src == SourceAbove(page)
    IN  \A rec \in Range(RecList(src)) :
            Fits(page, src, RecsBefore(src, rec)) =>
                LET r == page_copy_rec_list_start(page, NoZip, src, rec, index, NewMtr)
                    n == Len(RecsBefore(src, rec))
                    l == UserRecs(r.page)
                IN  /\ ~r.fatal
                    /\ KeysOf(r.page, l)
                           = KeysOf(page, UserRecs(page))
                             \o KeysOf(src, RecsBefore(src, rec))
                    /\ SubSeq(l, 1, page_get_n_recs(page)) = UserRecs(page)
                    /\ page_get_n_recs(r.page) = page_get_n_recs(page) + n
                    /\ r.ret = LastRec(page)
                    /\ page_get_n_recs(page) = 0 =>
                           r.ret = page_get_infimum_rec(page)
                    /\ page_rec_is_infimum(src, rec) => r.page = page

\* records were copied to the end of a page that held records: the record
\* that was its last one, which the copy returned, is followed by a record
\* with a larger key
C18_Witness ==
    /\ last.op = "page_copy_rec_list_start" /\ ~last.fatal
    /\ page_rec_is_user_rec(page, last.ret)
    /\ page_rec_is_user_rec(page, page_rec_get_next(page, last.ret))
    /\ page.rec[page_rec_get_next(page, last.ret)].key > page.rec[last.ret].key
    /\ page_get_n_recs(page) >= 6

\* a move was called
Moves == {"page_move_rec_list_end", "page_move_rec_list_start"}
MoveMade == call.made /\ "fn" \in DOMAIN call /\ call.fn \in Moves

\* the keys of the records the move was to move: of those from split_rec on,
\* or of those in front of it
MovedKeys ==
    Range(KeysOf(call.before,
                 IF call.fn = "page_move_rec_list_end"
                 THEN RecsFrom(call.before, call.split_rec)
                 ELSE RecsBefore(call.before, call.split_rec)))

\* C19: page_move_rec_list_end and page_move_rec_list_start delete from the
\* page only after the copy to the other page succeeded.  If they return
\* TRUE, every record to move is in the list of the other page and no longer
\* in the list of the page, each page keeps its other records, and the two
\* numbers of records add up to what they did before the call.  They return
\* FALSE only if the other page is compressed and could be neither
\* compressed nor reorganized after the copy; then the page is as it was
\* before the call, and the record list of the other page, restored from its
\* compressed image, is the list it had before the call.
C19_Move ==
    MoveMade =>
        /\ ~last.fatal
        /\ IF call.ret
           THEN /\ MovedKeys \subseteq UserKeys(call.dst)
                /\ MovedKeys \cap UserKeys(page) = {}
                /\ UserKeys(call.dst) = UserKeys(call.dst_before) \cup MovedKeys
                /\ UserKeys(page) = UserKeys(call.before) \ MovedKeys
                /\ page_get_n_recs(page) + page_get_n_recs(call.dst)
                       = page_get_n_recs(call.before)
                         + page_get_n_recs(call.dst_before)
           ELSE /\ call.zip = "overflow"
                /\ page = call.before
                /\ RecList(call.dst) = RecList(call.dst_before)
                /\ KeysOf(call.dst, RecList(call.dst))
                       = KeysOf(call.dst_before, RecList(call.dst_before))
                /\ page_get_n_recs(call.dst) = page_get_n_recs(call.dst_before)

\* a move of records from the end of a page to a compressed page that held
\* records failed
C19_Witness ==
    /\ MoveMade /\ call.fn = "page_move_rec_list_end" /\ ~call.ret
    /\ Cardinality(MovedKeys) >= 2
    /\ page_get_n_recs(call.dst_before) > 0

\* the sum of the numbers of records the slots of the page own
TotalOwned(p) == SumOwned(p, page_dir_get_n_slots(p) - 1)

\* the record is as it was in the page b but for its next pointer
SameButNext(p, b, rec) ==
    [p.rec[rec] EXCEPT !.next = 0] = [b.rec[rec] EXCEPT !.next = 0]

\* what the claim C23 says of the page r.page after the delete of the
\* record rec of the page b, the slot of rec counting balanced or not
DeletedOne(b, rec, r, balanced) ==
    LET q    == r.page
        prev == page_rec_get_prev(b, rec)
        slot == page_dir_find_owner_slot(b, rec)
    IN  /\ ~r.fatal
        /\ q.rec[prev].next = b.rec[rec].next
        /\ RecList(q) = SelectSeq(RecList(b), LAMBDA x : x # rec)
        /\ page_get_n_recs(q) = page_get_n_recs(b) - 1
        /\ balanced \/ page_dir_slot_get_n_owned(q, slot)
                           = page_dir_slot_get_n_owned(b, slot) - 1
        /\ TotalOwned(q) = TotalOwned(b) - 1
        /\ q.garbage = b.garbage + b.rec[rec].size
        /\ q.free = rec
        /\ q.rec[rec].next = b.free
        /\ SameButNext(q, b, rec)
        /\ q.heap_top = b.heap_top
        /\ q.n_heap = b.n_heap

HeadFits(p, key) ==
    p.free # 0 /\ p.rec[p.free].size >= entry_size(page_is_comp(p), key)

\* what an insert gives that took the head of the free list of the page b,
\* the garbage being lowered by less
Reused(b, key, r, less) ==
    LET q == r.page
    IN  /\ ~r.fatal /\ r.ret # 0
        /\ r.ret - q.rec[r.ret].extra = b.free - b.rec[b.free].extra
        /\ q.rec[r.ret].heap_no = b.rec[b.free].heap_no
        /\ q.rec[r.ret].key = key
        /\ q.heap_top = b.heap_top
        /\ q.n_heap = b.n_heap
        /\ q.free = b.rec[b.free].next
        /\ FreeList(q) = Tail(FreeList(b))
        /\ q.garbage = b.garbage - less
        /\ page_get_n_recs(q) = page_get_n_recs(b) + 1

\* what an insert gives that asked the heap of the page b: a record at the
\* heap top, or NULL and the page as it was
Allocated(b, key, r) ==
    LET q == r.page
    IN  /\ ~r.fatal
        /\ FreeList(q) = FreeList(b)
        /\ q.garbage = b.garbage
        /\ IF r.ret = 0 THEN q = b
           ELSE /\ r.ret - q.rec[r.ret].extra = b.heap_top
                /\ q.heap_top = b.heap_top + entry_size(page_is_comp(b), key)
                /\ q.n_heap = b.n_heap + 1
                /\ page_get_n_recs(q) = page_get_n_recs(b) + 1

\* C24 as stated: an insert that finds the head of the free list at least
\* as large as its record takes its place, leaves the heap top and n_heap,
\* advances the free list, lowers the garbage by the size of the reused
\* record and raises n_recs by one; else it asks the heap and leaves the
\* free list.
C24_Original ==
    \A key \in Keys \ UserKeys(page) :
        LET r == page_cur_insert_rec_low(page, CursorFor(page, key), key, NewMtr)
        IN  IF HeadFits(page, key)
            THEN Reused(page, key, r, page.rec[page.free].size)
            ELSE Allocated(page, key, r)

\* C24: an insert that finds the head of the free list at least as large as
\* its record puts the record where the head began and gives it the heap
\* number of the head; the heap top and n_heap do not change, the head of
\* the free list is the record that followed, the garbage is lowered by the
\* size of the inserted record, which may be less than the size of the
\* reused one, and n_recs is raised by one.  Else the insert asks the heap:
\* the free list and the garbage do not change, and the record is at the
\* former heap top or, if the heap has no space, nothing is inserted.
C24_Reuse ==
    \A key \in Keys \ UserKeys(page) :
        LET r == page_cur_insert_rec_low(page, CursorFor(page, key), key, NewMtr)
        IN  IF HeadFits(page, key)
            THEN Reused(page, key, r, entry_size(page_is_comp(page), key))
            ELSE Allocated(page, key, r)

\* an insert took the place of a larger record of the free list: the
\* garbage counts more bytes than the records of the free list have
C24_Witness ==
    /\ last.op = "page_cur_insert_rec_low" /\ ~last.fatal /\ last.ret # 0
    /\ last.ret - page.rec[last.ret].extra + page.rec[last.ret].size < page.heap_top
    /\ page.rec[last.ret].heap_no < page_dir_get_n_heap(page) - 1
    /\ done.deletes = 1
    /\ page.free = 0
    /\ page.garbage > 0

\* the page q has the modify clock of the page b and n more
Clocked(b, q, n) == q.modify_clock = b.modify_clock + n

\* page_create_low and page_mem_alloc_heap on the page: at least that many
\* counts of the modify clock at the creation and at an allocation that
\* succeeds
ClockCreateAlloc(create, alloc) ==
    /\ Clocked(page, page_create_low(page, page_is_comp(page)), 1)
    /\ page_create_low(page, page_is_comp(page)).modify_clock
           >= page.modify_clock + create
    /\ \A need \in AllocNeeds :
           LET r == page_mem_alloc_heap(page, need, 0)
           IN  IF r.block = 0 THEN r.page = page
               ELSE /\ r.page # page
                    /\ r.page.modify_clock >= page.modify_clock + alloc
                    /\ alloc = 0 => Clocked(page, r.page, 0)

\* the inserts and the deletes of one record of the page, and with them
\* page_dir_split_slot and page_dir_balance_slot as they call them: at least
\* that many counts at a split and at a balance
ClockDirectory(n) ==
    /\ \A key \in InsertKeys(page) :
           LET r == page_cur_insert_rec_low(page, CursorFor(page, key), key, NewMtr)
           IN  "dir_call" \in DOMAIN r =>
                   LET b == r.dir_call.page
                       q == page_dir_split_slot(b, r.dir_call.slot_no)
                   IN  /\ q # b
                       /\ q.modify_clock >= b.modify_clock + n
                       /\ n = 0 => (Clocked(b, q, 0) /\ Clocked(page, r.page, 0))
    /\ \A rec \in Range(UserRecs(page)) :
           LET r == page_cur_delete_rec(page, index, rec, FALSE, NewMtr)
           IN  "dir_call" \in DOMAIN r =>
                   LET b == r.dir_call.page
                       q == page_dir_balance_slot(b, r.dir_call.slot_no)
                   IN  q # b => /\ q.modify_clock >= b.modify_clock + n
                                /\ n = 0 => Clocked(b, q, 0)

\* page_set_max_trx_id on the page: at least that many counts
ClockMaxTrxId(n) ==
    \A trx_id \in 1..MaxTrxId :
        LET q == page_set_max_trx_id(page, trx_id)
        IN  /\ q.max_trx_id = trx_id
            /\ q.modify_clock >= page.modify_clock + n
            /\ n = 0 => Clocked(page, q, 0)

\* page_delete_rec_list_end and page_delete_rec_list_start on the page: one
\* count for the end of the list unless it is empty, after PAGE_LAST_INSERT
\* is reset if the page is not created anew; one count for each record of
\* the start of the list, or one if the page is created anew
ClockDeleteList ==
    /\ \A rec \in Range(RecList(page)), recv \in BOOLEAN :
           (recv => ~page_rec_is_infimum(page, rec)) =>
               LET r == page_delete_rec_list_end(
                            page, FALSE, index, rec, ULINT_UNDEFINED,
                            ULINT_UNDEFINED, recv, NewMtr)
               IN  IF page_rec_is_supremum(page, rec) THEN r.page = page
                   ELSE /\ r.page # page
                        /\ Clocked(page, r.page, 1)
    /\ LET w == page_delete_rec_list_end_reset(page)
       IN  /\ Clocked(page, w, 0)
           /\ page.last_insert # 0 => w # page
    /\ \A rec \in Range(RecList(page)) :
           LET r == page_delete_rec_list_start(page, index, rec, FALSE, NewMtr)
               n == Len(RecsBefore(page, rec))
           IN  IF page_rec_is_infimum(page, rec) THEN r.page = page
               ELSE IF page_rec_is_supremum(page, rec) THEN Clocked(page, r.page, 1)
               ELSE /\ Clocked(page, r.page, n)
                    /\ n = 0 => r.page = page

\* page_copy_rec_list_end and page_copy_rec_list_start of records to the
\* page: at least that many counts if records are copied
ClockCopy(n) ==
    /\ LET src == SourceBelow(page)
       IN  \A rec \in Range(RecList(src)) :
               (Fits(page, src, RecsFrom(src, rec)) /\ RecsFrom(src, rec) # << >>) =>
                   LET r == page_copy_rec_list_end(page, NoZip, src, rec, index, NewMtr)
                   IN  /\ page_get_n_recs(r.page) > page_get_n_recs(page)
                       /\ r.page.modify_clock >= page.modify_clock + n
                       /\ n = 0 => Clocked(page, r.page, 0)
    /\ LET src == SourceAbove(page)
       IN  \A rec \in Range(RecList(src)) :
               (Fits(page, src, RecsBefore(src, rec)) /\ RecsBefore(src, rec) # << >>) =>
                   LET r == page_copy_rec_list_start(page, NoZip, src, rec, index, NewMtr)
                   IN  /\ page_get_n_recs(r.page) > page_get_n_recs(page)
                       /\ r.page.modify_clock >= page.modify_clock + n
                       /\ n = 0 => Clocked(page, r.page, 0)

CopyKinds ==
    { [sec |-> s, temp |-> t, level |-> l, dst_id |-> d, src_id |-> i] :
          s \in BOOLEAN, t \in BOOLEAN, l \in {0, 1},
          d \in 0..MaxTrxId, i \in 0..MaxTrxId }

\* the page has seen a few inserts only since it was created empty
SmallPage ==
    done.inserts <= TrxCheckInserts /\ done.deletes = 0 /\ done.copies = 0

\* a page p as a page of the kind k with PAGE_MAX_TRX_ID id
OfKind(p, k, id) == [p EXCEPT !.level = k.level, !.max_trx_id = id]

\* PAGE_MAX_TRX_ID of dst after a copy of the kind k that updates it
MaxTrxIdAfter(k) ==
    IF k.sec /\ ~k.temp /\ k.level = 0 THEN Max(k.dst_id, k.src_id) ELSE k.dst_id

\* PAGE_MAX_TRX_ID of the page as dst after page_copy_rec_list_end and
\* page_copy_rec_list_start from rec of the neighbouring page, kind k
MaxTrxIdAfterCopyEnd(k, rec) ==
    page_copy_rec_list_end(OfKind(page, k, k.dst_id), NoZip,
                           OfKind(SourceBelow(page), k, k.src_id), rec,
                           [index EXCEPT !.sec = k.sec, !.temp = k.temp],
                           NewMtr).page.max_trx_id
MaxTrxIdAfterCopyStart(k, rec) ==
    page_copy_rec_list_start(OfKind(page, k, k.dst_id), NoZip,
                             OfKind(SourceAbove(page), k, k.src_id), rec,
                             [index EXCEPT !.sec = k.sec, !.temp = k.temp],
                             NewMtr).page.max_trx_id

\* C20 as the specification states it: after a bulk copy from src to dst on
\* a leaf page of a secondary index of a table that is not temporary,
\* PAGE_MAX_TRX_ID of dst is the maximum of what it was and that of src; for
\* a clustered index, a temporary table or a page that is not a leaf it is
\* unchanged.
C20_Original ==
    SmallPage =>
        \A k \in CopyKinds :
            /\ \A rec \in Range(RecList(SourceBelow(page))) :
                   Fits(page, SourceBelow(page), RecsFrom(SourceBelow(page), rec))
                       => MaxTrxIdAfterCopyEnd(k, rec) = MaxTrxIdAfter(k)
            /\ \A rec \in Range(RecList(SourceAbove(page))) :
                   Fits(page, SourceAbove(page), RecsBefore(SourceAbove(page), rec))
                       => MaxTrxIdAfterCopyStart(k, rec) = MaxTrxIdAfter(k)

\* C20, amended: the same, but a page_copy_rec_list_start with rec the
\* infimum of src returns at once and leaves PAGE_MAX_TRX_ID of dst
\* unchanged, on a leaf page of a secondary index too.  (A
\* page_copy_rec_list_end from the supremum and a page_copy_rec_list_start
\* up to the first user record copy nothing either, and update it.)
C20_MaxTrxId ==
    SmallPage =>
        \A k \in CopyKinds :
            /\ \A rec \in Range(RecList(SourceBelow(page))) :
                   Fits(page, SourceBelow(page), RecsFrom(SourceBelow(page), rec))
                       => MaxTrxIdAfterCopyEnd(k, rec) = MaxTrxIdAfter(k)
            /\ \A rec \in Range(RecList(SourceAbove(page))) :
                   Fits(page, SourceAbove(page), RecsBefore(SourceAbove(page), rec))
                       => MaxTrxIdAfterCopyStart(k, rec)
                              = IF page_rec_is_infimum(SourceAbove(page), rec)
                                THEN k.dst_id ELSE MaxTrxIdAfter(k)

\* records were copied to a leaf page of a secondary index whose
\* PAGE_MAX_TRX_ID was 0: it is that of the other page now
C20_Witness ==
    /\ last.op \in {"page_copy_rec_list_end", "page_copy_rec_list_start"}
    /\ ~last.fatal
    /\ index.sec /\ ~index.temp /\ page_is_leaf(page)
    /\ page_get_n_recs(page) >= 2
    /\ page.max_trx_id = MaxTrxId

PageCreateTypes ==
    { "MLOG_COMP_PAGE_CREATE", "MLOG_PAGE_CREATE",
      "MLOG_COMP_PAGE_CREATE_RTREE", "MLOG_PAGE_CREATE_RTREE" }

\* the last operation created the page anew as its last step
PageCreatedLast ==
    \/ last.op \in {"page_create", "page_create_empty"}
    \/ /\ last.log # << >>
       /\ last.log[Len(last.log)].type \in PageCreateTypes

\* C8: creating an empty page, in either format and whatever the page held
\* before, yields n_recs = 0, two directory slots (slot 0 the infimum, slot 1
\* the supremum), the heap top at the end of the supremum, n_heap = 2 with the
\* high bit the compact flag, an empty free list, no garbage, the infimum
\* pointing to the supremum, the supremum to nothing, and both owning 1.
C8_EmptyPage ==
    PageCreatedLast =>
        LET inf == IF index.comp THEN PAGE_NEW_INFIMUM ELSE PAGE_OLD_INFIMUM
            sup == IF index.comp THEN PAGE_NEW_SUPREMUM ELSE PAGE_OLD_SUPREMUM
        IN  /\ page.n_recs = 0
            /\ page.n_dir_slots = 2
            /\ page_dir_slot_get_rec(page, 0) = inf
            /\ page_dir_slot_get_rec(page, 1) = sup
            /\ page.heap_top = (IF index.comp THEN PAGE_NEW_SUPREMUM_END
                                              ELSE PAGE_OLD_SUPREMUM_END)
            /\ page.n_heap = 2 + (IF index.comp THEN PAGE_N_HEAP_COMP_FLAG ELSE 0)
            /\ page.free = 0
            /\ page.garbage = 0
            /\ DOMAIN page.rec = {inf, sup}
            /\ page.rec[inf].next = sup
            /\ page.rec[sup].next = 0
            /\ page.rec[inf].n_owned = 1
            /\ page.rec[sup].n_owned = 1

\* the page is created over a page that held records and a free list
C8_Witness ==
    /\ PageCreatedLast
    /\ last.op = "page_delete_rec_list_end"
    /\ done.deletes = 2
    /\ done.inserts >= 3

\* C9: a successful call of the heap allocator with need bytes returns the
\* old heap top, advances the heap top by need, increments the number of heap
\* records keeping the compact flag, and leaves n_recs, the number of slots,
\* the directory, the record list, the garbage and the free list unchanged.
C9_AllocSuccess ==
    (call.made /\ call.block # 0) =>
        /\ call.block = call.before.heap_top
        /\ page.heap_top = call.before.heap_top + call.need
        /\ page_dir_get_n_heap(page) = page_dir_get_n_heap(call.before) + 1
        /\ page_is_comp(page) = page_is_comp(call.before)
        /\ page.n_recs = call.before.n_recs
        /\ page.n_dir_slots = call.before.n_dir_slots
        /\ page.dir = call.before.dir
        /\ page.rec = call.before.rec
        /\ page.garbage = call.before.garbage
        /\ page.free = call.before.free

C9_Witness ==
    /\ call.made /\ call.block # 0
    /\ page_is_comp(call.before)
    /\ call.before.free # 0
    /\ call.before.n_dir_slots >= 3
    /\ call.need = page_get_max_insert_size(call.before, 1)

\* C10: when the available space is less than need, the heap allocator
\* returns NULL, does not write the heap number, and leaves every field of the
\* page unchanged, even if the free list holds a record that is large enough.
C10_AllocNoSpace ==
    (call.made /\ page_get_max_insert_size(call.before, 1) < call.need) =>
        /\ call.block = 0
        /\ call.heap_no = call.heap_no_in
        /\ page = call.before

C10_Witness ==
    /\ call.made /\ call.block = 0
    /\ page.free # 0
    /\ page.rec[page.free].size >= call.need

(***************************************************************************)
(* Properties of the record codec.                                         *)
(***************************************************************************)
\* the offsets of the record of the tuple have been computed
OffsetsMade == call.made /\ last.op = "rec_get_offsets"

\* the bytes of field i of a tuple
ValueOf(dtuple, i) ==
    IF dtuple[i].len = 0 THEN << >>
    ELSE << [val |-> i, from |-> 0, to |-> dtuple[i].len] >>

\* the reference at the end of field i of a tuple
ReferenceOf(dtuple, i) ==
    << [val  |-> i,
        from |-> dtuple[i].len - BTR_EXTERN_FIELD_REF_SIZE,
        to   |-> dtuple[i].len] >>

\* field i of the record is field i of the tuple
SameField(dtuple, rec, offsets, i) ==
    /\ rec_offs_nth_sql_null(offsets, i) = dtuple[i].null
    /\ rec_offs_nth_extern(offsets, i) = dtuple[i].ext
    /\ ~dtuple[i].null =>
          /\ rec_offs_nth_size(offsets, i) = dtuple[i].len
          /\ rec_get_nth_field(rec, offsets, i) = ValueOf(dtuple, i)
    /\ dtuple[i].ext =>
          DataFrom(rec.data, 1, 0,
                   offsets.ends[i].offs - BTR_EXTERN_FIELD_REF_SIZE,
                   offsets.ends[i].offs) = ReferenceOf(dtuple, i)

\* C26: for every tuple that conforms to its index, the offsets computed on
\* the record of the tuple give every field the length and the bytes it has
\* in the tuple, the SQL-NULL flag exactly to the null fields, the EXTERNAL
\* flag exactly to the externally stored fields, whose 20-byte reference is
\* at the end of the field, and the record the any-external flag exactly
\* when a field is stored externally.
C26_RoundTrip ==
    OffsetsMade =>
        /\ rec_offs_n_fields(last.ret) = Len(call.dtuple)
        /\ \A i \in DOMAIN call.dtuple :
               SameField(call.dtuple, call.rec, last.ret, i)
        /\ rec_offs_any_extern(last.ret)
               = (\E i \in DOMAIN call.dtuple : call.dtuple[i].ext)

\* an integer, a string, a null field and an externally stored field
C26_Witness ==
    /\ OffsetsMade
    /\ index.fields = RowFields
    /\ call.dtuple[2].len = 1 /\ ~call.dtuple[2].null
    /\ call.dtuple[3].null
    /\ call.dtuple[4].ext /\ call.dtuple[4].len = BTR_EXTERN_FIELD_REF_SIZE
    /\ rec_offs_any_extern(last.ret)

\* the number of bytes of a data area
RECURSIVE DataBytes(_, _)
DataBytes(data, i) ==
    IF i > Len(data) THEN 0
    ELSE (data[i].to - data[i].from) + DataBytes(data, i + 1)

\* the sizes agree with the record and with its offsets
SameSizes(size, rec, offsets) ==
    /\ size.extra = Len(rec.hdr)
    /\ size.size = Len(rec.hdr) + DataBytes(rec.data, 1)
    /\ size.extra = rec_offs_extra_size(offsets)
    /\ size.size = rec_offs_extra_size(offsets) + rec_offs_data_size(offsets)

\* C27: for every tuple that conforms to its index, the extra size and the
\* total size of the converted-size computation are the number of header
\* bytes and of all bytes that the conversion writes, and they are the
\* extra size and the extra plus data size that the offsets of the record
\* give.
C27_Sizes ==
    OffsetsMade =>
        SameSizes(rec_get_converted_size_comp(index, REC_STATUS_ORDINARY,
                                              call.dtuple, Len(call.dtuple)),
                  call.rec, last.ret)

\* a one-byte length, a two-byte length and one byte of null flags
C27_Witness ==
    /\ OffsetsMade
    /\ index.fields = RowFields
    /\ call.dtuple[2].len = 255
    /\ ~call.dtuple[3].null
    /\ call.dtuple[4].len = 256 /\ ~call.dtuple[4].ext
    /\ rec_offs_extra_size(last.ret) = REC_N_NEW_EXTRA_BYTES + 4
    /\ Len(call.rec.hdr) = REC_N_NEW_EXTRA_BYTES + 4

\* the header of a record of one nullable column, before the field is written
OneField ==
    [hdr |-> << 0 >>, data |-> << >>, nulls |-> 1, null_mask |-> 1, lens |-> 2]

\* the length bytes that the conversion writes for a field
WrittenFor(ifield, field) ==
    LET st == rec_convert_field(OneField, ifield, field, 1)
    IN  SubSeq(st.hdr, 2, st.lens - 1)

\* the number of length bytes that the size computation counts for a field
CountedFor(ifield, field) ==
    rec_get_converted_size_field([extra_size |-> 0, data_size |-> 0],
                                 ifield, field).extra_size

\* the number of length bytes that the offsets computation reads for a field
ReadFor(ifield, field) ==
    LET st == rec_convert_field(OneField, ifield, field, 1)
    IN  rec_init_offsets_field(
            [nulls |-> 1, null_mask |-> 1, lens |-> 2, offs |-> 0,
             any_ext |-> {}, ends |-> << >>],
            [hdr |-> st.hdr], ifield).lens - 2

\* the length bytes of a field are as the rule of the two forms says
PrefixRule(ifield, field, written) ==
    IF field.null \/ ifield.fixed_len # 0 THEN written = << >>
    ELSE IF ifield.col.len <= 255 \/ (field.len < 128 /\ ~field.ext)
    THEN written = << field.len >>
    ELSE /\ Len(written) = 2
         /\ Bit(written[1], 7) = 1
         /\ Bit(written[1], 6) = (IF field.ext THEN 1 ELSE 0)
         /\ (written[1] % 64) * 256 + written[2] = field.len

RECURSIVE PrefixBytes(_, _, _)
PrefixBytes(idx, dtuple, i) ==
    IF i > Len(dtuple) THEN 0
    ELSE Len(WrittenFor(idx.fields[i], dtuple[i])) + PrefixBytes(idx, dtuple, i + 1)

ValidateMade == call.made /\ call.fn = "page_validate"

\* the frame is a leaf page of a secondary index of a table that is not
\* temporary
TrxIdKept(idx, frame) ==
    /\ dict_index_is_sec_or_ibuf(idx)
    /\ ~dict_table_is_temporary(idx)
    /\ page_is_leaf(frame)

\* PAGE_MAX_TRX_ID is 0 or above the maximum of the system
OutOfBounds(frame) ==
    frame.max_trx_id = 0 \/ frame.max_trx_id > trx_sys_get_max_trx_id

\* C28 as stated: corruption is reported whatever the number of records
C28_Original ==
    (ValidateMade /\ TrxIdKept(index, call.frame) /\ OutOfBounds(call.frame))
        => ~call.ret

\* C28: page_validate reports corruption for every leaf page of a secondary
\* index of a non-temporary table that has records and whose max_trx_id is
\* 0 or greater than the maximum transaction id of the system; on a page
\* without records max_trx_id is not checked, and the page is accepted or
\* not as it is with a max_trx_id in bounds.
C28_MaxTrxId ==
    (ValidateMade /\ TrxIdKept(index, call.frame) /\ OutOfBounds(call.frame))
        => IF page_is_empty(call.frame)
           THEN call.ret = page_validate([call.frame EXCEPT !.max_trx_id = 1], index)
           ELSE ~call.ret

\* a page with records, sound but for its max_trx_id, is reported
C28_Witness ==
    /\ ValidateMade
    /\ TrxIdKept(index, call.frame)
    /\ call.frame.max_trx_id = MaxTrxId + 1
    /\ page_get_n_recs(call.frame) = 2
    /\ call.simple
    /\ ~call.ret

\* after the walk the slot is the last of the directory, and the steps
\* taken are one more than the records of the page
WalkedAll(frame, w) ==
    /\ w.slot_no = page_dir_get_n_slots(frame) - 1
    /\ page_get_n_recs(frame) + PAGE_HEAP_NO_USER_LOW = w.count + 1

\* C29 as stated: the steps taken plus PAGE_HEAP_NO_USER_LOW are n_recs + 1
C29_Original ==
    (ValidateMade /\ call.ret) =>
        LET w == page_validate_walk(call.frame, StartWalk(call.frame))
        IN  /\ w.slot_no = page_dir_get_n_slots(call.frame) - 1
            /\ w.count + PAGE_HEAP_NO_USER_LOW = page_get_n_recs(call.frame) + 1

\* C29: the validators accept a page only if, after the walk of the list
\* from the infimum to the supremum, slot_no is n_slots - 1 and n_recs plus
\* PAGE_HEAP_NO_USER_LOW (2) equals the number of steps plus 1: the walk
\* takes one step from the infimum and from every user record.
C29_Walk ==
    ValidateMade =>
        /\ call.ret =>
              WalkedAll(call.frame,
                        page_validate_walk(call.frame, StartWalk(call.frame)))
        /\ call.simple =>
              WalkedAll(call.frame,
                        page_simple_validate_walk(call.frame,
                                                  StartWalk(call.frame)))

\* a page of three slots and eight records is accepted after nine steps
C29_Witness ==
    /\ ValidateMade
    /\ call.ret /\ call.simple
    /\ page_dir_get_n_slots(call.frame) = 3
    /\ page_get_n_recs(call.frame) = PAGE_DIR_SLOT_MAX_N_OWNED
    /\ page_validate_walk(call.frame, StartWalk(call.frame)).count
          = PAGE_DIR_SLOT_MAX_N_OWNED + 1
    /\ page_validate_walk(call.frame, StartWalk(call.frame)).slot_no = 2

(***************************************************************************)
(* Properties of the lookups through the directory.                        *)
(***************************************************************************)
FindOwnerMade == call.made /\ call.fn = "page_dir_find_owner_slot"

\* the nearest record at or after position i of the list that owns records
RECURSIVE NearestOwner(_, _, _)
NearestOwner(p, l, i) ==
    IF i > Len(l) THEN 0
    ELSE IF p.rec[l[i]].n_owned # 0 THEN l[i]
    ELSE NearestOwner(p, l, i + 1)

\* the slots of the frame that hold the offset
SlotsOf(frame, offs) ==
    { i \in 0..(page_dir_get_n_slots(frame) - 1) :
          page_dir_slot_get_rec(frame, i) = offs }

\* C31: for every record of the list of a page, page_dir_find_owner_slot
\* returns the slot that holds the offset of the nearest record at or
\* after it that owns records: slot 0 for the infimum and slot n_slots - 1
\* for the supremum of a valid page.  It ends in the fatal error exactly
\* when no slot from n_slots - 1 down to 0 holds that offset, and the page
\* is left as it was.
C31_FindOwner ==
    FindOwnerMade =>
        LET l     == RecList(call.frame)
            owner == NearestOwner(call.frame, l, IndexOf(l, call.rec))
        IN  /\ (call.ret < 0) = (SlotsOf(call.frame, owner) = {})
            /\ call.ret >= 0 => SlotsOf(call.frame, owner) = {call.ret}
            /\ call.frame = page =>
                  /\ call.ret >= 0
                  /\ page_rec_is_infimum(page, call.rec) => call.ret = 0
                  /\ page_rec_is_supremum(page, call.rec)
                        => call.ret = page_dir_get_n_slots(page) - 1
            /\ last.fatal = (call.ret < 0)

\* a record that owns nothing, in the middle slot of three
C31_Witness ==
    /\ FindOwnerMade
    /\ call.frame = page
    /\ page_dir_get_n_slots(page) = 3
    /\ page.rec[call.rec].n_owned = 0
    /\ call.ret = 1

GetNthMade == call.made /\ call.fn = "page_rec_get_nth"
NRecsBeforeMade == call.made /\ call.fn = "page_rec_get_n_recs_before"

\* C32: on every valid page the lookup of the nth record and the count of
\* the records before a record are inverse: for n in 0..n_recs + 1 the
\* count before the nth record is n, for every record r of the list,
\* infimum and supremum included, the record at the count before r is r;
\* the 0th record is the infimum and the (n_recs + 1)th the supremum.
C32_Inverse ==
    /\ GetNthMade =>
          /\ call.before = call.nth
          /\ call.ret = RecList(page)[call.nth + 1]
          /\ call.nth = 0 => page_rec_is_infimum(page, call.ret)
          /\ call.nth = page_get_n_recs(page) + 1
                => page_rec_is_supremum(page, call.ret)
    /\ NRecsBeforeMade =>
          /\ call.nth = call.rec
          /\ call.ret = IndexOf(RecList(page), call.rec) - 1

\* the last record of a page of three slots is the supremum
C32_Witness ==
    /\ GetNthMade
    /\ page_dir_get_n_slots(page) = 3
    /\ call.nth = page_get_n_recs(page) + 1
    /\ page_rec_is_supremum(page, call.ret)
    /\ call.before = call.nth

(***************************************************************************)
(* Properties of the count of the externally stored fields.                *)
(***************************************************************************)
NExternMade == call.made /\ last.op = "rec_get_n_extern_new"

\* the fields among the first n whose entry of the offsets has the flag
ExternAmong(offsets, n) ==
    Cardinality({ i \in 1..n : rec_offs_nth_extern(offsets, i) })

\* the end of field i in the offsets and the length of the field
EndOf(offsets, i) == IF i = 0 THEN 0 ELSE offsets.ends[i].offs
NonDecreasing(offsets) ==
    \A i \in 1..rec_offs_n_fields(offsets) :
        EndOf(offsets, i - 1) <= EndOf(offsets, i)

\* the bytes that a NULL field of the record of the call takes: none in the
\* new style; in the old style the bytes of its type, or the bytes of the
\* value that was set to NULL in place
NullSizeOf(i) ==
    IF index.comp THEN 0
    ELSE IF call.fn = "rec_set_nth_field_sql_null" /\ call.nth = i
    THEN dfield_get_len(call.dtuple[i])
    ELSE dtype_get_sql_null_size(index, i)

\* C34 as stated: in the offsets of a record of either format a field
\* flagged SQL-NULL has length zero, and the ends are non-decreasing
C34_Original ==
    OffsetsMade =>
        /\ NonDecreasing(last.ret)
        /\ \A i \in 1..rec_offs_n_fields(last.ret) :
              rec_offs_nth_sql_null(last.ret, i) =>
                  EndOf(last.ret, i) = EndOf(last.ret, i - 1)

\* C34: in the offsets of a record of either format the ends of the fields
\* are non-decreasing; a field flagged SQL-NULL has length zero in a record
\* of the new style, and in an old-style record it has the length of the
\* bytes it keeps: the fixed size of its type, or the size of the value
\* that was set to NULL in place
C34_NullLength ==
    OffsetsMade =>
        /\ NonDecreasing(last.ret)
        /\ \A i \in 1..rec_offs_n_fields(last.ret) :
              rec_offs_nth_sql_null(last.ret, i) =>
                  EndOf(last.ret, i) = EndOf(last.ret, i - 1) + NullSizeOf(i)

C34_Witness ==
    /\ OffsetsMade /\ ~index.comp /\ call.fn = "rec_convert_dtuple_to_rec"
    /\ \E i \in 1..rec_offs_n_fields(last.ret) :
          /\ rec_offs_nth_sql_null(last.ret, i)
          /\ EndOf(last.ret, i) = EndOf(last.ret, i - 1) + FixedLen
    /\ \E i \in 1..rec_offs_n_fields(last.ret) :
          /\ rec_offs_nth_sql_null(last.ret, i)
          /\ EndOf(last.ret, i) = EndOf(last.ret, i - 1)

\* C33: for every compact ordinary record and every n in 0..n_fields, the
\* count of the externally stored fields among the first n columns is the
\* number of the fields 0..n-1 whose entry of the offsets array has the
\* EXTERNAL flag; for n = 0 the count is 0.
C33_Original ==
    NExternMade =>
        last.ret = ExternAmong(rec_get_offsets(call.rec, index), last.n)

BalanceMade == call.made /\ call.fn = "page_dir_balance_slot"
LastSlot(p) == page_dir_get_n_slots(p) - 1

C35_LastSlot ==
    /\ BalanceMade
    /\ call.slot_no = LastSlot(call.before)

SplitMade == call.made /\ call.fn = "page_dir_split_slot"
MaxNOwned(p) ==
    Max(0, CHOOSE n \in {p.rec[r].n_owned : r \in DOMAIN p.rec} :
               \A r \in DOMAIN p.rec : p.rec[r].n_owned <= n)

\* the page at the call of a directory function is a state inside the
\* operation: the split is called on a slot of MAX_OWNED + 1 records and
\* adds one slot, the merge of two slots writes at most MAX_OWNED + 1
NOwnedInside ==
    /\ SplitMade =>
          /\ page_dir_slot_get_n_owned(call.before, call.slot_no)
                 = PAGE_DIR_SLOT_MAX_N_OWNED + 1
          /\ MaxNOwned(call.before) = PAGE_DIR_SLOT_MAX_N_OWNED + 1
          /\ page_dir_get_n_slots(page) = page_dir_get_n_slots(call.before) + 1
    /\ BalanceMade =>
          /\ MaxNOwned(call.before) <= PAGE_DIR_SLOT_MAX_N_OWNED
          /\ call.slot_no # LastSlot(call.before) =>
                 page_dir_slot_get_n_owned(call.before, call.slot_no)
                 + Min(PAGE_DIR_SLOT_MIN_N_OWNED,
                       page_dir_slot_get_n_owned(call.before, call.slot_no + 1))
                     <= PAGE_DIR_SLOT_MAX_N_OWNED + 1

\* the step of an insert: the slot of the group that takes the new record
\* is split exactly when the group had MAX_OWNED records before the insert
InsertSplits ==
    (/\ last'.op = "page_cur_insert_rec_low"
     /\ done'.inserts = done.inserts + 1
     /\ ~last'.fatal /\ last'.ret # 0)
    => LET next  == page'.rec[last'.ret].next
           owner == page_dir_find_owner_slot(page, next)
       IN  page_dir_get_n_slots(page') - page_dir_get_n_slots(page)
           = IF page_dir_slot_get_n_owned(page, owner)
                   = PAGE_DIR_SLOT_MAX_N_OWNED
             THEN 1 ELSE 0

\* C36: an insert splits one slot exactly when it raises the n_owned of an
\* owner to MAX_OWNED + 1, no record owns more than MAX_OWNED after an
\* operation, and inside an operation (at the call of the split, and in
\* the count that the merge of two slots writes) none owns more than
\* MAX_OWNED + 1 = 9, which fits the four bits of the field
C36_NOwned ==
    /\ [](/\ MaxNOwned(page) <= PAGE_DIR_SLOT_MAX_N_OWNED
           /\ PAGE_DIR_SLOT_MAX_N_OWNED + 1 < 16
           /\ NOwnedInside)
    /\ [][InsertSplits]_vars

C36_Witness ==
    /\ SplitMade
    /\ page_dir_slot_get_n_owned(call.before, call.slot_no) = 9
    /\ MaxNOwned(page) <= PAGE_DIR_SLOT_MAX_N_OWNED

C36_Merged ==
    /\ BalanceMade
    /\ page_dir_get_n_slots(page) = page_dir_get_n_slots(call.before) - 1
    /\ MaxNOwned(page) = PAGE_DIR_SLOT_MAX_N_OWNED - 1

SimpleMade == call.made /\ call.fn = "page_simple_validate"

\* the bent pointer closes a cycle: it points back into its own list
Cycle == call.bent.list # "none" /\ call.bent.to \in DOMAIN call.bent.frame.rec
                                /\ call.bent.to # call.bent.frame.free
\* the bent pointer leaves the record list: NULL, or the free list
Leaves == call.bent.list = "rec" /\ ~Cycle

\* C37 as stated: on a frame whose record chain or free list holds a cycle,
\* or whose record chain does not reach the supremum, the validator gives
\* up after more than UNIV_PAGE_SIZE counted records and returns FALSE
C37_Original ==
    (SimpleMade /\ call.bent.list # "none") =>
        /\ last.ret = FALSE
        /\ call.walk.count > UNIV_PAGE_SIZE \/ call.free.count > UNIV_PAGE_SIZE

\* the records of the cycle that the bent pointer closes in the record
\* list: the records of the list of the page from the target to the record
BentPos(l, rec) == CHOOSE i \in DOMAIN l : l[i] = rec
CycleRecs ==
    LET l == RecList(page)
    IN  {l[i] : i \in BentPos(l, call.bent.to)..BentPos(l, call.bent.rec)}
OwnerInCycle == \E r \in CycleRecs : page.rec[r].n_owned # 0

\* C37: the validators without an index return TRUE on the page as it is
\* and FALSE on a frame with a bent list, and no walk counts more than
\* UNIV_PAGE_SIZE + 1 records.  The count of the records ends the walk of a
\* cyclic free list and of a cycle of the record list that holds no owner;
\* a check at a record ends the walk before that when the cycle holds an
\* owner or when the pointer leaves the record list
C37_Terminates ==
    SimpleMade =>
        /\ last.ret = (call.bent.list = "none")
        /\ call.walk.count <= UNIV_PAGE_SIZE + 1
        /\ call.free.count <= UNIV_PAGE_SIZE + 1
        /\ call.bent.list = "free" =>
              call.walk.ok /\ ~call.free.ok
              /\ call.free.count = UNIV_PAGE_SIZE + 1
        /\ (call.bent.list = "rec" /\ Cycle /\ ~OwnerInCycle) =>
              ~call.walk.ok /\ call.walk.count = UNIV_PAGE_SIZE + 1
        /\ (call.bent.list = "rec" /\ (Leaves \/ OwnerInCycle)) =>
              ~call.walk.ok /\ call.walk.count <= Fuel(page)

C37_Witness ==
    /\ SimpleMade
    /\ call.bent.list = "rec" /\ Cycle /\ ~OwnerInCycle
    /\ call.walk.count > UNIV_PAGE_SIZE
    /\ ~last.ret

C37_FreeCycle ==
    /\ SimpleMade
    /\ call.bent.list = "free" /\ call.bent.to # call.bent.rec
    /\ call.free.count > UNIV_PAGE_SIZE

C37_OwnerCycle ==
    /\ SimpleMade
    /\ call.bent.list = "rec" /\ Cycle /\ OwnerInCycle
    /\ call.walk.count > 0

RedoMade == call.made /\ call.fn = "page_parse_delete_rec_list"

\* C38: the log record of the delete of the end or of the start of the
\* record list, applied to the page as it was before the delete, gives the
\* page that the delete gave, with its count of records, its garbage, its
\* directory and its free list; a buffer with fewer than 2 bytes gives
\* NULL and leaves the page, and without a block the 2 bytes are passed
\* over and the page is left
C38_Redo ==
    RedoMade =>
        /\ Len(call.buf) < 2 => last.ret = 0 /\ page = call.before
        /\ (Len(call.buf) >= 2 /\ call.block = << >>) =>
              last.ret = 3 /\ page = call.before
        /\ (Len(call.buf) >= 2 /\ call.block # << >>) =>
              /\ last.ret = 3
              /\ page = call.original
              /\ page.n_recs = call.original.n_recs
              /\ page.garbage = call.original.garbage
              /\ page.dir = call.original.dir
              /\ FreeList(page) = FreeList(call.original)

C38_Witness ==
    /\ RedoMade
    /\ Len(call.buf) = 2 /\ call.block # << >>
    /\ call.type = "MLOG_COMP_LIST_END_DELETE"
    /\ page = call.original
    /\ page.n_recs < call.before.n_recs - 1
    /\ page.n_dir_slots < call.before.n_dir_slots
    /\ call.before.free # 0

C38_Start ==
    /\ RedoMade
    /\ Len(call.buf) = 2 /\ call.block # << >>
    /\ call.type = "MLOG_LIST_START_DELETE"
    /\ page.n_recs < call.before.n_recs - 1


\* the sum of the sizes of the user records in the list of the page, as
\* page_validate adds them up
LiveSize(p) == SizeFrom(p, FirstUserRec(p), Fuel(p))

\* the records of the page from rec up to the supremum, in list order
EndRecs(p, rec) ==
    LET l == RecList(p) IN SubSeq(l, IndexOf(l, rec), Len(l) - 1)

Reversed(l) == [i \in 1..Len(l) |-> l[Len(l) + 1 - i]]

\* page_delete_rec_list_end(page, rec) on the page, compressed or not
EndDeleted(rec, page_zip, known, recv) ==
    page_delete_rec_list_end(page, page_zip, index, rec,
        IF known THEN EndCount(page, rec) ELSE ULINT_UNDEFINED,
        IF known THEN EndSize(page, rec) ELSE ULINT_UNDEFINED,
        recv, NewMtr)

\* PAGE_GARBAGE of q is that of the page plus the sizes of rec and its
\* successors
GarbageAdded(q, rec) == q.garbage = page.garbage + EndSize(page, rec)

\* the removed records are in front of the old free list in list order:
\* PAGE_FREE is rec and the last removed record points to the old head
SegmentInFront(q, rec) ==
    LET removed == EndRecs(page, rec)
    IN  /\ q.free = rec
        /\ q.rec[removed[Len(removed)]].next = page.free
        /\ FreeList(q) = removed \o FreeList(page)

\* the removed records are in front of the old free list one by one, the
\* last removed record first: the cut record points to the old head
SegmentPushed(q, rec) ==
    LET removed == EndRecs(page, rec)
    IN  /\ q.free = removed[Len(removed)]
        /\ q.rec[rec].next = page.free
        /\ FreeList(q) = Reversed(removed) \o FreeList(page)

MtrMade == call.made /\ "trail" \in DOMAIN call /\ ~last.fatal

\* C40: every operation of a mini-transaction, the bulk operations that
\* switch the logging off while they work included (page_delete_rec_list_end
\* on a compressed page, page_delete_rec_list_start, page_copy_rec_list_end
\* and page_copy_rec_list_start to a compressed page), returns with the log
\* mode the mini-transaction had at its call, also when the compression
\* fails and NULL is returned; so the log mode is always the one the
\* mini-transaction was started in, and a page_cur_delete_rec after a bulk
\* operation writes to the log unless the mini-transaction was started in
\* MTR_LOG_NONE.
C40_LogModeRestored ==
    /\ [](MtrMade => call.mtr.log_mode = call.entry)
    /\ [][(MtrMade /\ MtrMade' /\ Len(call'.trail) = Len(call.trail) + 1)
          => /\ call'.mtr.log_mode = call.mtr.log_mode
             /\ (call'.trail[Len(call'.trail)].fn = "page_cur_delete_rec"
                 => (Len(call'.mtr.log) > Len(call.mtr.log)
                       <=> call.entry # "MTR_LOG_NONE"))]_vars

\* a mini-transaction that logs everything copied records to a compressed
\* page whose compression failed, NULL was returned and the page has the
\* records it had, and then deleted a record, which was logged
C40_Witness ==
    /\ MtrMade /\ call.entry = "MTR_LOG_ALL"
    /\ Len(call.trail) = 2
    /\ call.trail[1].fn = "page_copy_rec_list_end"
    /\ call.trail[1].zip = "overflow"
    /\ call.trail[2].n_recs = call.trail[1].n_recs
    /\ call.trail[2].fn = "page_cur_delete_rec"
    /\ Len(call.mtr.log) = 1

\* a mini-transaction started in MTR_LOG_SHORT_INSERTS copied records to the
\* start of a compressed page, which was reorganized, and deleted two
\* records or more from the end of its list
C40_Bulk ==
    /\ MtrMade /\ call.entry = "MTR_LOG_SHORT_INSERTS"
    /\ Len(call.trail) = 2
    /\ call.trail[1].fn = "page_copy_rec_list_start"
    /\ call.trail[1].zip = "reorganized"
    /\ call.trail[2].n_recs > call.trail[1].n_recs
    /\ call.trail[2].fn = "page_delete_rec_list_end" /\ call.trail[2].zip = TRUE
    /\ call.trail[2].n_recs - page.n_recs >= 2
    /\ page.n_recs > 0
    /\ Len(call.mtr.log) >= 2

\* a mini-transaction started in MTR_LOG_NONE deleted two records from the
\* start of the list and left one
C40_Start ==
    /\ MtrMade /\ call.entry = "MTR_LOG_NONE"
    /\ Len(call.trail) = 1
    /\ call.trail[1].fn = "page_delete_rec_list_start"
    /\ call.trail[1].n_recs - page.n_recs >= 2
    /\ page.n_recs > 0
    /\ call.mtr.log = << >>

=============================================================================
